---- MODULE Spec2Model ----
(***************************************************************************)
(* SoundAnalizer: the per-source worker (anchor dedup, window fetch,       *)
(* aggregation), the threshold evaluator, the hysteresis state machine,    *)
(* configuration loading, and main() with the Scheduler and its poll tasks.*)
(*                                                                         *)
(* Time: the code reads time.time() (seconds, float) and compares          *)
(* (now - mark) * 1000.0 with the *_ms tunables.  The model keeps the      *)
(* clock in whole milliseconds, so (now - mark) >= hold is the same        *)
(* comparison.  step() reads the clock twice in a row (now, now_ms); both  *)
(* reads are taken at the step's one model instant.                        *)
(* Anchors and window bounds are store timestamps in whole seconds.        *)
(***************************************************************************)
EXTENDS Integers, Sequences, FiniteSets, TLC

VARIABLES
    cfg,          \* Config: thresholds and hysteresis tunables (read-only after Init)
    kind,         \* DeviceWorker.kind, also StateMachine.src
    now,          \* wall clock, ms
    latest,       \* store: latest timestamp of the worker's table, or None
    stopped,      \* DeviceWorker._stopped
    last_anchor,  \* DeviceWorker._last_anchor
    fsm,          \* StateMachine fields
    last,         \* history: what the most recent poll() did
    alerts,       \* history: clock times at which step() returned an ALERT
    runLen,       \* history: number of back-to-back exceeding steps so far
    runStart,     \* history: time of the first step of that run, or None
    cdEntered,    \* history: time COOLDOWN was last entered, or None
    hist,         \* history: the steps that left COOLDOWN, and the exceeding
                  \* steps taken back to back since the last of them
    fact,         \* threshold evaluator: the Fact passed in
    res,          \* threshold evaluator: what check_levels_and_bands gave back
    fetched,      \* aggregation: the rows the window fetch returned
    table,        \* store: the rows of the worker's table
    peer,         \* the fields of the other enabled worker
    main,         \* main(): position, environment read, stop_event, exit status
    sched,        \* Scheduler fields and the position of run()
    tasks,        \* the poll tasks run() created that it has not yet collected
    w_stopped     \* DeviceWorker._stopped of each worker _startup built

(* the variables of main() and the Scheduler *)
schedVars == <<main, sched, tasks, w_stopped>>

vars == <<cfg, kind, now, latest, stopped, last_anchor, fsm, last, alerts,
          runLen, runStart, cdEntered, hist, fact, res, fetched, table, peer,
          schedVars>>

----------------------------------------------------------------------------
(* Bounds of the model *)

MaxTime == 3

MaxAnchor == 5

MaxRows == 1

----------------------------------------------------------------------------
(* Optional[...] = None *)
None == -1

EmptyDict == [k \in {} |-> FALSE]

BandCols ==
    {"31.5_Hz", "63.0_Hz", "125.0_Hz", "250.0_Hz", "500.0_Hz",
     "1000.0_Hz", "2000.0_Hz", "4000.0_Hz", "8000.0_Hz"}

NoBands == [b \in BandCols |-> None]

RECURSIVE SeqMax(_)
SeqMax(s) ==
    IF Len(s) = 1 THEN Head(s)
    ELSE LET m == SeqMax(Tail(s)) IN IF Head(s) > m THEN Head(s) ELSE m

RECURSIVE SeqSum(_)
SeqSum(s) == IF s = <<>> THEN 0 ELSE Head(s) + SeqSum(Tail(s))

NotNone(values) == SelectSeq(values, LAMBDA v : v # None)

(* SafeMax that gives 0 for no values *)
SafeMaxOrZero(values) ==
    LET vals == NotNone(values) IN IF vals # <<>> THEN SeqMax(vals) ELSE 0

(* _safe_max: max of the non-None values, None when there is none *)
SafeMax(values) ==
    LET vals == NotNone(values) IN IF vals # <<>> THEN SeqMax(vals) ELSE None

(* _safe_avg: sum(vals) / len(vals) of the non-None values, None when there
   is none.  Exact on the inputs used here (the quotient is whole). *)
SafeAvg(values) ==
    LET vals == NotNone(values)
    IN IF vals # <<>> THEN SeqSum(vals) \div Len(vals) ELSE None

Col(rows, c) == [i \in 1..Len(rows) |-> rows[i][c]]

BandCol(rows, b) == [i \in 1..Len(rows) |-> rows[i].bands[b]]

(* FirstNotNone that takes the first row's value, null or not *)
FirstValue(values) == IF values = <<>> THEN None ELSE Head(values)

(* first non-None leq_60s scanning rows in the fetched (DESC) order *)
RECURSIVE FirstNotNone(_)
FirstNotNone(values) ==
    IF values = <<>> THEN None
    ELSE IF Head(values) # None THEN Head(values)
    ELSE FirstNotNone(Tail(values))

(* DeviceWorker._make_fact *)
MakeFact(k, rows, ts_from, ts_to) ==
    IF k = "UMIK"
    THEN [src |-> "UMIK", ts_from |-> ts_from, ts_to |-> ts_to,
          spl_max |-> SafeMax(Col(rows, "spl")),
          lmax_max |-> SafeMax(Col(rows, "lmax")),
          leq_1s_avg |-> SafeAvg(Col(rows, "leq_1s")),
          leq_60s_last |-> FirstNotNone(Col(rows, "leq_60s")),
          bands_max |-> [b \in BandCols |-> SafeMax(BandCol(rows, b))],
          leq_avg |-> None,
          exceeded_levels |-> EmptyDict, exceeded_bands |-> EmptyDict]
    ELSE [src |-> "ANALOG", ts_from |-> ts_from, ts_to |-> ts_to,
          spl_max |-> SafeMax(Col(rows, "spl")),
          lmax_max |-> SafeMax(Col(rows, "lmax")),
          leq_1s_avg |-> None,
          leq_60s_last |-> None,
          bands_max |-> EmptyDict,
          leq_avg |-> SafeAvg(Col(rows, "leq")),
          exceeded_levels |-> EmptyDict, exceeded_bands |-> EmptyDict]

----------------------------------------------------------------------------
(* rules/thresholds.py *)

(* LevelGt with >= for > *)
LevelGtEq(val, thr) == val # None /\ val >= thr

(* the comparison `x is not None and x > thr` of every level *)
LevelGt(val, thr) == val # None /\ val > thr

(* the comparison `val > thr` of a band whose value is present *)
BandGt(val, thr) == val > thr

(* fact.bands_max.get(band) *)
BandGet(bands_max, band) ==
    IF band \in DOMAIN bands_max THEN bands_max[band] ELSE None

UmikLevelKeys(config) ==
    {k \in {"spl", "leq_1s", "leq_60s", "lmax"} :
        CASE k = "spl" -> config.umik_thr_spl # None
          [] k = "leq_1s" -> config.umik_thr_leq_1s # None
          [] k = "leq_60s" -> config.umik_thr_leq_60s # None
          [] k = "lmax" -> config.umik_thr_lmax # None}

UmikLevels(f, config) ==
    [k \in UmikLevelKeys(config) |->
        CASE k = "spl" -> LevelGt(f.spl_max, config.umik_thr_spl)
          [] k = "leq_1s" -> LevelGt(f.leq_1s_avg, config.umik_thr_leq_1s)
          [] k = "leq_60s" -> LevelGt(f.leq_60s_last, config.umik_thr_leq_60s)
          [] k = "lmax" -> LevelGt(f.lmax_max, config.umik_thr_lmax)]

UmikBands(f, config) ==
    [b \in {x \in DOMAIN config.umik_thr_bands : BandGet(f.bands_max, x) # None} |->
        BandGt(BandGet(f.bands_max, b), config.umik_thr_bands[b])]

AnalogLevelKeys(config) ==
    {k \in {"spl", "leq", "lmax"} :
        CASE k = "spl" -> config.analog_thr_spl # None
          [] k = "leq" -> config.analog_thr_leq # None
          [] k = "lmax" -> config.analog_thr_lmax # None}

AnalogLevels(f, config) ==
    [k \in AnalogLevelKeys(config) |->
        CASE k = "spl" -> LevelGt(f.spl_max, config.analog_thr_spl)
          [] k = "leq" -> LevelGt(f.leq_avg, config.analog_thr_leq)
          [] k = "lmax" -> LevelGt(f.lmax_max, config.analog_thr_lmax)]

(* check_levels_and_bands: always returns the annotated fact; an unknown
   src only logs a warning (warned) and is never raised to the caller. *)
CheckLevelsAndBands(f, config) ==
    LET lv == IF f.src = "UMIK" THEN UmikLevels(f, config)
              ELSE IF f.src = "ANALOG" THEN AnalogLevels(f, config)
              ELSE EmptyDict
        bd == IF f.src = "UMIK" THEN UmikBands(f, config) ELSE EmptyDict
    IN [raised |-> FALSE,
        warned |-> f.src \notin {"UMIK", "ANALOG"},
        fact |-> [f EXCEPT !.exceeded_levels = lv, !.exceeded_bands = bd]]

(* IsExceeded that looks at the levels only *)
IsExceededLevelsOnly(f) ==
    [flag |-> \E k \in DOMAIN f.exceeded_levels : f.exceeded_levels[k],
     exceeded_levels |-> f.exceeded_levels,
     exceeded_bands |-> f.exceeded_bands]

(* is_exceeded: any(levels.values()) or any(bands.values()) *)
IsExceeded(f) ==
    [flag |-> (\E k \in DOMAIN f.exceeded_levels : f.exceeded_levels[k])
              \/ (\E b \in DOMAIN f.exceeded_bands : f.exceeded_bands[b]),
     exceeded_levels |-> f.exceeded_levels,
     exceeded_bands |-> f.exceeded_bands]

----------------------------------------------------------------------------
(* rules/state_machine.py *)

NoEvent == [type |-> "NONE"]

(* StateMachine.__init__ at clock time t *)
InitFsm(t) ==
    [state |-> "NORMAL", last_transition |-> t,
     active_since |-> None, recovery_since |-> None,
     consec_hit |-> 0, consec_ok |-> 0, last_alert_at_ms |-> None]

(* _win_seconds *)
WinSeconds(f) ==
    IF f.ts_to - f.ts_from > 0 THEN f.ts_to - f.ts_from ELSE 0

(* _make_event *)
MakeEvent(etype, src, f, thresholds, exceeded_levels, exceeded_bands) ==
    [type |-> etype, src |-> src,
     ts_first |-> f.ts_from, ts_last |-> f.ts_to,
     levels |-> [spl_max |-> f.spl_max, lmax_max |-> f.lmax_max,
                 leq_1s_avg |-> f.leq_1s_avg,
                 leq_60s_last |-> f.leq_60s_last,
                 leq_avg |-> f.leq_avg],
     octaves |-> IF src = "UMIK" THEN f.bands_max ELSE EmptyDict,
     exceeded |-> [levels |-> exceeded_levels, bands |-> exceeded_bands],
     thresholds |-> thresholds,
     samples |-> 0,
     window_sec |-> WinSeconds(f)]

(* UpdateCounters whose non-exceeding step keeps the count of exceeding ones *)
UpdateCountersKeepingHits(f, flag, t) ==
    IF flag
    THEN [f EXCEPT !.consec_hit = @ + 1,
                   !.consec_ok = 0,
                   !.active_since = IF @ = None THEN t ELSE @]
    ELSE [f EXCEPT !.consec_ok = @ + 1,
                   !.recovery_since = IF @ = None THEN t ELSE @,
                   !.active_since = None]

(* the run-length counters and start markers, updated on every step *)
UpdateCounters(f, flag, t) ==
    IF flag
    THEN [f EXCEPT !.consec_hit = @ + 1,
                   !.consec_ok = 0,
                   !.active_since = IF @ = None THEN t ELSE @]
    ELSE [f EXCEPT !.consec_ok = @ + 1,
                   !.consec_hit = 0,
                   !.recovery_since = IF @ = None THEN t ELSE @,
                   !.active_since = None]

(* HitLongEnough with > for >= *)
HitLongEnoughStrict(f, t) ==
    f.active_since # None /\ (t - f.active_since) > cfg.trigger_hold_ms

HitLongEnough(f, t) ==
    f.active_since # None /\ (t - f.active_since) >= cfg.trigger_hold_ms

(* EnoughSeq one poll short *)
EnoughSeqOneShort(f) == f.consec_hit >= cfg.consecutive_required - 1

EnoughSeq(f) == f.consec_hit >= cfg.consecutive_required

(* GapOk that ignores the last ALERT *)
GapOkAlways(f, t) == TRUE

GapOk(f, t) ==
    f.last_alert_at_ms = None \/ (t - f.last_alert_at_ms) >= cfg.retrigger_gap_ms

RecoveredLongEnough(f, t) ==
    f.recovery_since # None /\ (t - f.recovery_since) >= cfg.recover_hold_ms

(* CooldownOver that never comes *)
CooldownOverNever(f, t) == FALSE

(* CooldownOver with > for >= *)
CooldownOverStrict(f, t) == (t - f.last_transition) > cfg.cooldown_ms

(* CooldownOver that does not wait *)
CooldownOverAlways(f, t) == TRUE

CooldownOver(f, t) == (t - f.last_transition) >= cfg.cooldown_ms

(* StepNormal that stays in ALERT after firing *)
StepNormalHoldingAlert(f, flag, t, fa, thresholds) ==
    IF flag /\ HitLongEnough(f, t) /\ EnoughSeq(f) /\ GapOk(f, t)
    THEN [fsm |-> [f EXCEPT !.state = "ALERT",
                            !.last_transition = t,
                            !.last_alert_at_ms = t,
                            !.recovery_since = None],
          ev |-> MakeEvent("ALERT", kind, fa, thresholds,
                           fa.exceeded_levels, fa.exceeded_bands),
          via |-> <<"ALERT">>]
    ELSE [fsm |-> f, ev |-> NoEvent, via |-> <<>>]

(* NORMAL branch: the ALERT is built and the machine goes straight on to
   COOLDOWN within the same call.  via lists the values the call assigns to
   self.state, in order. *)
StepNormal(f, flag, t, fa, thresholds) ==
    IF flag /\ HitLongEnough(f, t) /\ EnoughSeq(f) /\ GapOk(f, t)
    THEN [fsm |-> [f EXCEPT !.state = "COOLDOWN",
                            !.last_transition = t,
                            !.last_alert_at_ms = t,
                            !.recovery_since = None],
          ev |-> MakeEvent("ALERT", kind, fa, thresholds,
                           fa.exceeded_levels, fa.exceeded_bands),
          via |-> <<"ALERT", "COOLDOWN">>]
    ELSE [fsm |-> f, ev |-> NoEvent, via |-> <<>>]

(* ALERT branch *)
StepAlert(f, flag, t, fa, thresholds) ==
    IF ~flag /\ RecoveredLongEnough(f, t)
    THEN [fsm |-> [f EXCEPT !.state = "COOLDOWN", !.last_transition = t],
          ev |-> IF cfg.send_recovery
                 THEN MakeEvent("RECOVERY", kind, fa, thresholds,
                                fa.exceeded_levels, fa.exceeded_bands)
                 ELSE NoEvent,
          via |-> <<"COOLDOWN">>]
    ELSE [fsm |-> f, ev |-> NoEvent, via |-> <<>>]

(* StepCooldown that leaves COOLDOWN only on a non-exceeding poll *)
StepCooldownWhenQuiet(f, t) ==
    IF (t - f.last_transition) >= cfg.cooldown_ms /\ f.consec_hit = 0
    THEN [fsm |-> [f EXCEPT !.state = "NORMAL",
                            !.active_since = None,
                            !.recovery_since = None,
                            !.consec_hit = 0,
                            !.consec_ok = 0,
                            !.last_transition = t],
          ev |-> NoEvent, via |-> <<"NORMAL">>]
    ELSE [fsm |-> f, ev |-> NoEvent, via |-> <<>>]

(* StepCooldown that keeps the exceeding count and its marker on leaving *)
StepCooldownKeepingCount(f, t) ==
    IF CooldownOver(f, t)
    THEN [fsm |-> [f EXCEPT !.state = "NORMAL",
                            !.recovery_since = None,
                            !.consec_ok = 0,
                            !.last_transition = t],
          ev |-> NoEvent, via |-> <<"NORMAL">>]
    ELSE [fsm |-> f, ev |-> NoEvent, via |-> <<>>]

(* StepCooldown that keeps the exceedance-start marker on leaving *)
StepCooldownKeepingMarker(f, t) ==
    IF CooldownOver(f, t)
    THEN [fsm |-> [f EXCEPT !.state = "NORMAL",
                            !.recovery_since = None,
                            !.consec_hit = 0,
                            !.consec_ok = 0,
                            !.last_transition = t],
          ev |-> NoEvent, via |-> <<"NORMAL">>]
    ELSE [fsm |-> f, ev |-> NoEvent, via |-> <<>>]

(* StepCooldown that restarts the cooldown on every step taken within it *)
StepCooldownRefreshing(f, t) ==
    IF CooldownOver(f, t)
    THEN [fsm |-> [f EXCEPT !.state = "NORMAL",
                            !.active_since = None,
                            !.recovery_since = None,
                            !.consec_hit = 0,
                            !.consec_ok = 0,
                            !.last_transition = t],
          ev |-> NoEvent, via |-> <<"NORMAL">>]
    ELSE [fsm |-> [f EXCEPT !.last_transition = t], ev |-> NoEvent,
          via |-> <<>>]

(* COOLDOWN branch *)
StepCooldown(f, t) ==
    IF CooldownOver(f, t)
    THEN [fsm |-> [f EXCEPT !.state = "NORMAL",
                            !.active_since = None,
                            !.recovery_since = None,
                            !.consec_hit = 0,
                            !.consec_ok = 0,
                            !.last_transition = t],
          ev |-> NoEvent, via |-> <<"NORMAL">>]
    ELSE [fsm |-> f, ev |-> NoEvent, via |-> <<>>]

(* StateMachine.step at clock time t: the new fields and the Event or NoEvent *)
Step(f0, fa, thresholds, t) ==
    LET flag == IsExceeded(fa).flag
        f == UpdateCounters(f0, flag, t)
    IN CASE f.state = "NORMAL" -> StepNormal(f, flag, t, fa, thresholds)
         [] f.state = "ALERT" -> StepAlert(f, flag, t, fa, thresholds)
         [] f.state = "COOLDOWN" -> StepCooldown(f, t)
         [] OTHER -> [fsm |-> f, ev |-> NoEvent, via |-> <<>>]

----------------------------------------------------------------------------
(* workers/device_worker.py *)

(* the thresholds_view dict poll() hands to step() *)
ThresholdsView(k) ==
    [levels |->
        [spl |-> IF k = "UMIK" THEN cfg.umik_thr_spl ELSE cfg.analog_thr_spl,
         leq_1s |-> IF k = "UMIK" THEN cfg.umik_thr_leq_1s ELSE None,
         leq_60s |-> IF k = "UMIK" THEN cfg.umik_thr_leq_60s ELSE None,
         leq |-> IF k = "ANALOG" THEN cfg.analog_thr_leq ELSE None,
         lmax |-> IF k = "UMIK" THEN cfg.umik_thr_lmax ELSE cfg.analog_thr_lmax],
     bands |-> IF k = "UMIK" THEN cfg.umik_thr_bands ELSE EmptyDict]

(* WindowFrom without the widening *)
WindowFromUnclamped(ts_to, window_seconds) == ts_to - window_seconds

(* ts_from of the window ending at the anchor; an empty span is widened to 1 *)
WindowFrom(ts_to, window_seconds) ==
    IF ts_to - window_seconds >= ts_to THEN ts_to - 1 ELSE ts_to - window_seconds

(* the Fact poll() builds from the rows of the window ending at the anchor *)
PollFact(anchor, rows) ==
    LET ts_to == anchor
        ts_from == WindowFrom(ts_to, cfg.window_seconds)
    IN MakeFact(kind, rows, ts_from, ts_to)

(* AnchorUnchanged with < for <= *)
AnchorUnchangedStrict(anchor) == last_anchor # None /\ anchor < last_anchor

(* anchor <= _last_anchor: nothing new in the store *)
AnchorUnchanged(anchor) == last_anchor # None /\ anchor <= last_anchor

(* what the most recent poll() did.  Each I/O call of poll() sits in a
   try/except Exception that logs and goes on (or returns), so the call
   returns to the scheduler without raising whatever the I/O did. *)
PollLog(path, flag, ev, sent) ==
    [path |-> path, flag |-> flag, ev |-> ev, sent |-> sent, raised |-> FALSE,
     via |-> <<>>, samples |-> None, window_sec |-> None, nrows |-> 0]

(* the log of a poll that stepped the machine: the type of the Event, whether
   the send went through, the values step() assigned to the state, and, of an
   Event handed to notifier.send, its samples and window_sec beside the
   number of rows its Fact was built from *)
SteppedLog(fa, st, rows, sendOk) ==
    [PollLog("stepped", IsExceeded(fa).flag, st.ev.type,
             IF st.ev.type = "NONE" THEN "none"
             ELSE IF sendOk THEN "ok" ELSE "failed")
        EXCEPT !.via = st.via,
               !.samples = IF st.ev.type = "NONE" THEN None ELSE st.ev.samples,
               !.window_sec = IF st.ev.type = "NONE" THEN None
                              ELSE st.ev.window_sec,
               !.nrows = IF st.ev.type = "NONE" THEN 0 ELSE Len(rows)]

(* PollReturn that records what the anchor read gave *)
PollReturnRecording(path, anchor) ==
    [last_anchor |-> anchor, fsm |-> fsm,
     log |-> PollLog(path, FALSE, "NONE", "none")]

(* a poll that returns before the anchor is recorded *)
PollReturn(path, anchor) ==
    [last_anchor |-> last_anchor, fsm |-> fsm,
     log |-> PollLog(path, FALSE, "NONE", "none")]

(* a poll that returns after the anchor is recorded, the fetch having failed
   or given no rows *)
PollAbort(path, anchor) ==
    [last_anchor |-> anchor, fsm |-> fsm,
     log |-> PollLog(path, FALSE, "NONE", "none")]

(* PollEvaluate that keeps the machine's step only when the send succeeds *)
PollEvaluateUncommitted(anchor, rows, sendOk) ==
    LET fa == CheckLevelsAndBands(PollFact(anchor, rows), cfg).fact
        st == Step(fsm, fa, ThresholdsView(kind), now)
    IN [last_anchor |-> anchor,
        fsm |-> IF st.ev.type # "NONE" /\ ~sendOk THEN fsm ELSE st.fsm,
        log |-> SteppedLog(fa, st, rows, sendOk)]

(* steps 3-6 of poll(): aggregate, evaluate, step the machine, send *)
PollEvaluate(anchor, rows, sendOk) ==
    LET fa == CheckLevelsAndBands(PollFact(anchor, rows), cfg).fact
        st == Step(fsm, fa, ThresholdsView(kind), now)
    IN [last_anchor |-> anchor, fsm |-> st.fsm,
        log |-> SteppedLog(fa, st, rows, sendOk)]

(* PollRun without the test of _stopped *)
PollRunIgnoringStop(anchorOk, fetchOk, rows, sendOk) ==
    IF ~anchorOk THEN PollReturn("anchor_failed", None)
    ELSE IF latest = None THEN PollReturn("no_data", None)
    ELSE IF AnchorUnchanged(latest) THEN PollReturn("unchanged", latest)
    ELSE IF ~fetchOk THEN PollAbort("fetch_failed", latest)
    ELSE IF rows = <<>> THEN PollAbort("no_rows", latest)
    ELSE PollEvaluate(latest, rows, sendOk)

(* DeviceWorker.poll, with the outcomes of its three I/O calls as inputs *)
PollRun(anchorOk, fetchOk, rows, sendOk) ==
    IF stopped THEN PollReturn("stopped", None)
    ELSE IF ~anchorOk THEN PollReturn("anchor_failed", None)
    ELSE IF latest = None THEN PollReturn("no_data", None)
    ELSE IF AnchorUnchanged(latest) THEN PollReturn("unchanged", latest)
    ELSE IF ~fetchOk THEN PollAbort("fetch_failed", latest)
    ELSE IF rows = <<>> THEN PollAbort("no_rows", latest)
    ELSE PollEvaluate(latest, rows, sendOk)

(* no step has left COOLDOWN, and no exceeding step has been taken *)
NoHist == [exits |-> <<>>, hits |-> 0, first |-> None]

(* main.py _startup builds one DeviceWorker per enabled source, and __init__
   gives each its own _stopped, _last_anchor and StateMachine; the workers
   share config, db and notifier.  The variables kind .. cdEntered are those
   of the worker whose poll() the event loop is running, peer those of the
   other worker. *)
WorkerFields(k, t) ==
    [kind |-> k, latest |-> None, stopped |-> FALSE, last_anchor |-> None,
     fsm |-> InitFsm(t), last |-> PollLog("init", FALSE, "NONE", "none"),
     alerts |-> <<>>, runLen |-> 0, runStart |-> None, cdEntered |-> None,
     hist |-> NoHist]

(* one source enabled: no other worker *)
NoPeer == WorkerFields("NONE", 0)

(* the two workers handed one StateMachine *)
PeerSharingMachine(p) == [peer EXCEPT !.fsm = p.fsm]

(* what poll() does to the other worker: it assigns self._last_anchor and
   the fields of self.fsm, nothing else *)
PeerAfterPoll(p) == peer

----------------------------------------------------------------------------
(* Inputs *)

(* spl readings around the configured threshold of 2: missing, equal, above *)
SplVals == {None, 2, 3}

RowOf(spl) ==
    [spl |-> spl, lmax |-> None, leq_1s |-> None, leq_60s |-> None,
     leq |-> None, bands |-> NoBands]

Rows == {RowOf(v) : v \in SplVals}

RowSeqs == UNION {[1..n -> Rows] : n \in 0..MaxRows}

Tunable(hold, cooldown, gap, need) ==
    [trigger_hold_ms |-> hold, cooldown_ms |-> cooldown,
     retrigger_gap_ms |-> gap, consecutive_required |-> need]

(* nothing but the cooldown in the way; hold and count both required, with
   the cooldown longer than the gap; the count alone required, with the gap
   longer than the cooldown; three polls over a hold of two, as in a hold of
   1000 ms polled every 500 ms *)
Tunables ==
    {Tunable(0, 1, 0, 1), Tunable(1, 2, 0, 2), Tunable(0, 1, 2, 2),
     Tunable(2, 1, 0, 3)}

ConfigOf(tun, thr) ==
    [window_seconds |-> 5,
     umik_thr_spl |-> thr.umik_thr_spl,
     umik_thr_leq_1s |-> thr.umik_thr_leq_1s,
     umik_thr_leq_60s |-> thr.umik_thr_leq_60s,
     umik_thr_lmax |-> thr.umik_thr_lmax,
     umik_thr_bands |-> thr.umik_thr_bands,
     analog_thr_spl |-> thr.analog_thr_spl,
     analog_thr_leq |-> thr.analog_thr_leq,
     analog_thr_lmax |-> thr.analog_thr_lmax,
     trigger_hold_ms |-> tun.trigger_hold_ms,
     recover_hold_ms |-> 2,
     cooldown_ms |-> tun.cooldown_ms,
     retrigger_gap_ms |-> tun.retrigger_gap_ms,
     consecutive_required |-> tun.consecutive_required,
     send_recovery |-> TRUE,
     limit_last_u |-> 200,
     limit_last_a |-> 200,
     analog_weight_type |-> ""]

SplOnly ==
    [umik_thr_spl |-> 2, umik_thr_leq_1s |-> None, umik_thr_leq_60s |-> None,
     umik_thr_lmax |-> None, umik_thr_bands |-> EmptyDict,
     analog_thr_spl |-> 2, analog_thr_leq |-> None, analog_thr_lmax |-> None]

IdleFact == MakeFact("UMIK", <<RowOf(None)>>, 0, 1)

IdleRes ==
    [done |-> FALSE, raised |-> FALSE, warned |-> FALSE, flag |-> FALSE,
     fact |-> IdleFact]

----------------------------------------------------------------------------
(* env.py: load_config.  A setting is the text found in the OS environment
   or the .env file, after _get has supplied the default of a missing key. *)

ParseOk(val) == [err |-> "", val |-> val]

ParseError(err) == [err |-> err, val |-> None]

(* int(val) of the texts used here *)
IntOf(val) ==
    CASE val = "1000" -> ParseOk(1000)
      [] val = "2000" -> ParseOk(2000)
      [] OTHER -> ParseError("ValueError")

(* _parse_int *)
ParseInt(val, default) ==
    IF val = "" THEN ParseOk(default) ELSE IntOf(val)

(* float(val) of the texts used here *)
FloatOf(val) ==
    CASE val = "70" -> ParseOk(70)
      [] val = "55" -> ParseOk(55)
      [] OTHER -> ParseError("ValueError")

(* ParseFloat that falls back to the default on a text that is no number *)
ParseFloatDefaulting(val, default) ==
    IF val = "" \/ FloatOf(val).err # "" THEN ParseOk(default) ELSE FloatOf(val)

(* _parse_float *)
ParseFloat(val, default) ==
    IF val = "" THEN ParseOk(default) ELSE FloatOf(val)

(* _parse_bool: never fails; anything but a yes-word is False *)
ParseBool(val, default) == val \in {"1", "true", "yes", "on", "y"}

(* _normalize_band_key of the keys used here *)
NormalizeBandKey(key) ==
    CASE key = "1000" -> "1000.0_Hz"
      [] key = "77" -> "77.0_Hz"
      [] OTHER -> key

(* _parse_bands_json.  The JSON text is given by its form (unset, not JSON,
   JSON but not an object, an object) and the object's items.  A key that
   does not normalise to a known band is skipped with its value unread. *)
ParseBandsJson(val) ==
    IF val.form = "unset" THEN ParseOk(EmptyDict)
    ELSE IF val.form \in {"invalid", "array"} THEN ParseError("ValueError")
    ELSE LET known == {k \in DOMAIN val.items : NormalizeBandKey(k) \in BandCols}
         IN IF \E k \in known : FloatOf(val.items[k]).err # ""
            THEN ParseError("ValueError")
            ELSE ParseOk([b \in {NormalizeBandKey(k) : k \in known} |->
                            FloatOf(val.items[CHOOSE k \in known :
                                                 NormalizeBandKey(k) = b]).val])

(* _read_env_file: no path given, a path that is not a file, a readable file *)
ReadEnvFile(file) ==
    IF file = "none" THEN ParseOk("")
    ELSE IF file = "missing" THEN ParseError("FileNotFoundError")
    ELSE ParseOk("")

(* load_config: the first failing step raises; otherwise the Config (the
   fields main() and the Scheduler read) *)
LoadConfig(env) ==
    LET interval == ParseInt(env.POLL_INTERVAL_MS, 500)
        spl == ParseFloat(env.UMIK_THR_SPL, None)
        bands == ParseBandsJson(env.UMIK_THR_BANDS)
        http_enabled == ParseBool(env.ALERT_HTTP_ENABLED, FALSE)
    IN IF ReadEnvFile(env.file).err # "" THEN ParseError(ReadEnvFile(env.file).err)
       ELSE IF interval.err # "" THEN ParseError(interval.err)
       ELSE IF spl.err # "" THEN ParseError(spl.err)
       ELSE IF bands.err # "" THEN ParseError(bands.err)
       ELSE IF env.DB_PATH = "" THEN ParseError("ValueError")
       ELSE IF http_enabled /\ env.ALERT_HTTP_URL = "" THEN ParseError("ValueError")
       ELSE ParseOk([poll_interval_ms |-> interval.val,
                     umik_enabled |-> ParseBool(env.UMIK_ENABLED, TRUE),
                     analog_enabled |-> ParseBool(env.ANALOG_ENABLED, TRUE),
                     umik_thr_spl |-> spl.val,
                     umik_thr_bands |-> bands.val])

BandsJson(form, items) == [form |-> form, items |-> items]

(* UMIK_THR_BANDS: unset, malformed in three ways, an unknown key with a
   value that is not a number, a well-formed object *)
BandsTexts ==
    {BandsJson("unset", <<>>), BandsJson("invalid", <<>>), BandsJson("array", <<>>),
     BandsJson("object", [k \in {"1000"} |-> "x"]),
     BandsJson("object", [k \in {"77"} |-> "x"]),
     BandsJson("object", [k \in {"1000"} |-> "55"])}

Envs ==
    [file : {"none", "missing", "present"},
     POLL_INTERVAL_MS : {"abc", "1000", "2000"},
     UMIK_THR_SPL : {"", "abc", "70"},
     UMIK_THR_BANDS : BandsTexts,
     DB_PATH : {"", "db"},
     ALERT_HTTP_ENABLED : {"true", "false"},
     ALERT_HTTP_URL : {"", "http://h"},
     UMIK_ENABLED : {"true", "false"},
     ANALOG_ENABLED : {"true", "false"}]

(* the environment once it has been read *)
NoEnv ==
    [file |-> "none", POLL_INTERVAL_MS |-> "", UMIK_THR_SPL |-> "",
     UMIK_THR_BANDS |-> BandsJson("unset", <<>>), DB_PATH |-> "db",
     ALERT_HTTP_ENABLED |-> "false", ALERT_HTTP_URL |-> "",
     UMIK_ENABLED |-> "false", ANALOG_ENABLED |-> "false"]

----------------------------------------------------------------------------
(* main.py and workers/scheduler.py.  The coroutines run on one event loop:
   a coroutine runs alone from one await to the next, so each action is the
   code between two awaits.  Timeouts are counted in whole seconds.  A poll
   is taken by its control flow only: it returns, raises, or is suspended in
   notifier.send (its one await). *)

(* ticks run() may start *)
MaxTicks == 2

(* wait_for(run_task, timeout=5.0) *)
ShutdownTimeout == 5

IdleMain ==
    [pc |-> "idle", env |-> NoEnv, err |-> "", exit_code |-> None,
     stop_event |-> FALSE, wait_left |-> 0, stopped_in |-> "none"]

IdleSched ==
    [pc |-> "none", interval_ms |-> 1, workers |-> <<>>, stop_event |-> FALSE,
     tick |-> 0, sleep_left |-> 0, logged |-> {}]

(* _startup: one worker per enabled source, UMIK first *)
StartupWorkers(config) ==
    (IF config.umik_enabled THEN <<"UMIK">> ELSE <<>>)
    \o (IF config.analog_enabled THEN <<"ANALOG">> ELSE <<>>)

(* Scheduler.__init__ *)
NewScheduler(interval_ms, workers) ==
    [pc |-> "ready",
     interval_ms |-> IF interval_ms > 1 THEN interval_ms ELSE 1,
     workers |-> workers, stop_event |-> FALSE, tick |-> 0, sleep_left |-> 0,
     logged |-> {}]

(* a poll task has returned, raised or been cancelled *)
Settled(t) == t.st \in {"returned", "raised", "cancelled"}

(* gather that hands the first exception on to run() *)
GatherRaising(ts) ==
    IF \E t \in ts : t.st = "raised" THEN "raise"
    ELSE IF \A t \in ts : Settled(t) THEN "results" ELSE "pending"

(* gather that returns at the first settled task *)
GatherFirst(ts) ==
    IF \E t \in ts : Settled(t) THEN "results" ELSE "pending"

(* asyncio.gather with return_exceptions=True: results once every task
   has settled, an exception being one more result *)
Gather(ts) ==
    IF \A t \in ts : Settled(t) THEN "results" ELSE "pending"

(* run() that never sees the stop request *)
StopNeverSeen(s) == FALSE

(* self._stop_event.is_set() *)
StopRequested(s) == s.stop_event

(* timeout=self.interval_ms / 1000.0 *)
SleepTimeout(s) == s.interval_ms \div 1000

(* the tasks one tick creates: one poll per worker *)
TickTasks(s) ==
    {[w |-> s.workers[i], tick |-> s.tick + 1, st |-> "created"] :
        i \in DOMAIN s.workers}

(* run() from the loop test to its next await: out of the loop on a stop
   request, else a new tick, awaiting gather (or the sleep when there is no
   worker) *)
LoopHead(s, ts) ==
    IF StopRequested(s)
    THEN [sched |-> [s EXCEPT !.pc = "done"], tasks |-> ts]
    ELSE IF s.workers = <<>>
    THEN [sched |-> [s EXCEPT !.pc = "sleep", !.tick = @ + 1,
                              !.sleep_left = SleepTimeout(s)],
          tasks |-> ts]
    ELSE [sched |-> [s EXCEPT !.pc = "gather", !.tick = @ + 1, !.sleep_left = 0],
          tasks |-> ts \cup TickTasks(s)]

(* wait_for(run_task) that never times out *)
WaitNeverExpires(m) == FALSE

(* the timeout of wait_for(run_task, timeout=5.0) has run out *)
WaitExpired(m) == m.pc = "wait_run" /\ m.wait_left = 0

(* the timeout of the inter-tick wait_for has run out *)
SleepExpired(s) == s.pc = "sleep" /\ s.sleep_left = 0

(* task.cancel() reaching a poll that has not settled *)
Cancelled(t) == IF Settled(t) THEN t ELSE [t EXCEPT !.st = "cancelled"]

workerVars ==
    <<cfg, kind, now, latest, stopped, last_anchor, fsm, last, alerts,
      runLen, runStart, cdEntered, hist, fact, res, fetched, table, peer>>

InitSched ==
    /\ main \in {[IdleMain EXCEPT !.pc = "load", !.env = e] : e \in Envs}
    /\ sched = IdleSched
    /\ tasks = {}
    /\ w_stopped = <<>>
    /\ cfg = ConfigOf(Tunable(0, 1, 0, 1), SplOnly)
    /\ kind = "UMIK"
    /\ now = 0
    /\ latest = None
    /\ stopped = FALSE
    /\ last_anchor = None
    /\ fsm = InitFsm(0)
    /\ last = PollLog("init", FALSE, "NONE", "none")
    /\ alerts = <<>>
    /\ runLen = 0
    /\ runStart = None
    /\ cdEntered = None
    /\ hist = NoHist
    /\ fact = IdleFact
    /\ res = IdleRes
    /\ fetched = <<>>
    /\ table = {}
    /\ peer = NoPeer

(* main() up to its first await: load_config, _startup, create_task(run()),
   then stop_event.wait(); an exception of load_config ends main() with
   status 1 *)
AsyncMain ==
    /\ main.pc = "load"
    /\ \E r \in {LoadConfig(main.env)} :
          IF r.err # ""
          THEN /\ main' = [main EXCEPT !.pc = "exited", !.err = r.err,
                                       !.exit_code = 1]
               /\ UNCHANGED <<sched, tasks, w_stopped>>
          ELSE /\ main' = [main EXCEPT !.pc = "wait_signal", !.env = NoEnv]
               /\ sched' = NewScheduler(r.val.poll_interval_ms,
                                        StartupWorkers(r.val))
               /\ tasks' = {}
               /\ w_stopped' =
                    [w \in {StartupWorkers(r.val)[i] :
                              i \in DOMAIN StartupWorkers(r.val)} |-> FALSE]
    /\ UNCHANGED workerVars

(* _signal_handler on SIGINT or SIGTERM *)
Signal ==
    /\ main.pc = "wait_signal"
    /\ ~main.stop_event
    /\ main' = [main EXCEPT !.stop_event = TRUE]
    /\ UNCHANGED <<sched, tasks, w_stopped, workerVars>>

(* _graceful_run after stop_event.wait(): scheduler.stop(), shutdown() of
   every worker, then wait_for(run_task, timeout=5.0); main.stopped_in keeps
   where run() was when stop() was called *)
GracefulStop ==
    /\ main.pc = "wait_signal"
    /\ main.stop_event
    /\ sched' = [sched EXCEPT !.stop_event = TRUE]
    /\ w_stopped' = [w \in DOMAIN w_stopped |-> TRUE]
    /\ main' = [main EXCEPT !.pc = "wait_run", !.wait_left = ShutdownTimeout,
                            !.stopped_in = sched.pc]
    /\ UNCHANGED <<tasks, workerVars>>

(* wait_for(run_task) returns: run() has ended *)
RunJoined ==
    /\ main.pc = "wait_run"
    /\ sched.pc = "done"
    /\ main' = [main EXCEPT !.pc = "stopped", !.exit_code = 0, !.wait_left = 0]
    /\ UNCHANGED <<sched, tasks, w_stopped, workerVars>>

(* wait_for(run_task) times out: run_task is cancelled, which cancels the
   gather and through it the polls still in flight *)
RunTimeout ==
    /\ WaitExpired(main)
    /\ sched.pc # "done"
    /\ sched' = [sched EXCEPT !.pc = "cancelled", !.sleep_left = 0]
    /\ tasks' = {Cancelled(t) : t \in tasks}
    /\ main' = [main EXCEPT !.pc = "stopped", !.exit_code = 0]
    /\ UNCHANGED <<w_stopped, workerVars>>

(* run() starts: the first loop test *)
RunStart ==
    /\ sched.pc = "ready"
    /\ \E h \in {LoopHead(sched, tasks)} : sched' = h.sched /\ tasks' = h.tasks
    /\ UNCHANGED <<main, w_stopped, workerVars>>

(* the workers whose result is an Exception, as run() logs them *)
TickErrors(ts) == {t.w : t \in {u \in ts : u.st = "raised"}}

(* gather returns: the errors are logged (sched.logged) and run() goes to
   sleep; the tasks it collected are dropped *)
Gathered ==
    /\ sched.pc = "gather"
    /\ \E g \in {Gather({t \in tasks : t.tick = sched.tick})} :
          /\ g # "pending"
          /\ sched' = IF g = "raise"
                      THEN [sched EXCEPT !.pc = "failed"]
                      ELSE [sched EXCEPT
                              !.pc = "sleep",
                              !.sleep_left = SleepTimeout(sched),
                              !.logged = TickErrors({t \in tasks :
                                                      t.tick = sched.tick})]
    /\ tasks' = {t \in tasks : ~Settled(t)}
    /\ UNCHANGED <<main, w_stopped, workerVars>>

(* the sleep times out: the next loop test *)
SleepOver ==
    /\ SleepExpired(sched)
    /\ StopRequested(sched) \/ sched.tick < MaxTicks
    /\ \E h \in {LoopHead(sched, tasks)} : sched' = h.sched /\ tasks' = h.tasks
    /\ UNCHANGED <<main, w_stopped, workerVars>>

(* the sleep is cut short by the stop event: the next loop test *)
StopWakes ==
    /\ sched.pc = "sleep"
    /\ sched.stop_event
    /\ StopRequested(sched) \/ sched.tick < MaxTicks
    /\ \E h \in {LoopHead(sched, tasks)} : sched' = h.sched /\ tasks' = h.tasks
    /\ UNCHANGED <<main, w_stopped, workerVars>>

(* FirstAwait of a poll() that awaited the window fetch: suspended with the
   anchor recorded and the machine not yet stepped *)
FirstAwaitAtFetch(wstopped) ==
    IF wstopped THEN {"returned"}
    ELSE {"returned", "raised", "fetching", "sending"}

(* where a poll() that has been started is when it first gives up the event
   loop: at its end, or at await notifier.send(event), the only await of
   poll(); the anchor read, the fetch, _make_fact, check_levels_and_bands
   and fsm.step are plain calls made before it *)
FirstAwait(wstopped) ==
    IF wstopped THEN {"returned"} ELSE {"returned", "raised", "sending"}

(* a poll task runs from its start to its first await or its end *)
PollStart ==
    \E t \in tasks :
      /\ t.st = "created"
      /\ \E st \in FirstAwait(w_stopped[t.w]) :
            tasks' = (tasks \ {t}) \cup {[t EXCEPT !.st = st]}
      /\ UNCHANGED <<main, sched, w_stopped, workerVars>>

(* notifier.send comes back, with or without an error: the poll returns *)
PollSent ==
    \E t \in tasks :
      /\ t.st = "sending"
      /\ tasks' = (tasks \ {t}) \cup {[t EXCEPT !.st = "returned"]}
      /\ UNCHANGED <<main, sched, w_stopped, workerVars>>

(* one second passes on the running timeouts; a timeout that has run out
   fires before more time passes *)
Elapse ==
    /\ ~SleepExpired(sched)
    /\ ~(main.pc = "wait_run" /\ main.wait_left = 0)
    /\ sched.pc = "sleep" \/ main.pc = "wait_run"
    /\ sched' = IF sched.pc = "sleep"
                THEN [sched EXCEPT !.sleep_left = @ - 1] ELSE sched
    /\ main' = IF main.pc = "wait_run"
               THEN [main EXCEPT !.wait_left = @ - 1] ELSE main
    /\ UNCHANGED <<tasks, w_stopped, workerVars>>

NextSched ==
    \/ AsyncMain \/ Signal \/ GracefulStop \/ RunJoined \/ RunTimeout
    \/ RunStart \/ Gathered \/ SleepOver \/ StopWakes
    \/ PollStart \/ PollSent \/ Elapse

SpecSched == InitSched /\ [][NextSched]_vars

(* the event loop runs every callback that is ready, and time passes; a
   signal need not come and notifier.send need not come back *)
FairSched ==
    /\ WF_vars(GracefulStop) /\ WF_vars(RunJoined) /\ WF_vars(RunTimeout)
    /\ WF_vars(RunStart) /\ WF_vars(Gathered) /\ WF_vars(SleepOver)
    /\ WF_vars(StopWakes) /\ WF_vars(PollStart) /\ WF_vars(Elapse)

SpecSchedFair == SpecSched /\ FairSched

----------------------------------------------------------------------------
(* The worker driven by an arbitrary poll cadence *)

(* the tunings, and the first of them with NOTIFY_SEND_RECOVERY off *)
Configs ==
    {ConfigOf(tun, SplOnly) : tun \in Tunables}
    \cup {[ConfigOf(Tunable(0, 1, 0, 1), SplOnly) EXCEPT !.send_recovery = FALSE]}

Init ==
    /\ cfg \in Configs
    /\ kind \in {"UMIK", "ANALOG"}
    /\ now = 0
    /\ latest = None
    /\ stopped = FALSE
    /\ last_anchor = None
    /\ fsm = InitFsm(0)
    /\ last = PollLog("init", FALSE, "NONE", "none")
    /\ alerts = <<>>
    /\ runLen = 0
    /\ runStart = None
    /\ cdEntered = None
    /\ hist = NoHist
    /\ fact = IdleFact
    /\ res = IdleRes
    /\ fetched = <<>>
    /\ table = {}
    /\ peer = NoPeer
    /\ main = IdleMain
    /\ sched = IdleSched
    /\ tasks = {}
    /\ w_stopped = <<>>

(* the clock advances *)
Tick ==
    /\ now < MaxTime
    /\ now' = now + 1
    /\ UNCHANGED <<cfg, kind, latest, stopped, last_anchor, fsm, last, alerts,
                   runLen, runStart, cdEntered, hist, fact, res, fetched, table,
                   peer, schedVars>>

(* the recorder (or a purge) changes the latest timestamp of the table *)
StoreWrite ==
    /\ \E ts \in 1..MaxAnchor : ts # latest /\ latest' = ts
    /\ UNCHANGED <<cfg, kind, now, stopped, last_anchor, fsm, last, alerts,
                   runLen, runStart, cdEntered, hist, fact, res, fetched, table,
                   peer, schedVars>>

(* DeviceWorker.shutdown *)
Shutdown ==
    /\ ~stopped
    /\ stopped' = TRUE
    /\ UNCHANGED <<cfg, kind, now, latest, last_anchor, fsm, last, alerts,
                   runLen, runStart, cdEntered, hist, fact, res, fetched, table,
                   peer, schedVars>>

(* the outcomes of poll()'s I/O calls: which of them raises (at most one per
   poll matters, the poll returning at the first), and the rows fetched *)
IoOutcomes ==
    {[anchorOk |-> FALSE, fetchOk |-> TRUE, rows |-> <<>>, sendOk |-> TRUE],
     [anchorOk |-> TRUE, fetchOk |-> FALSE, rows |-> <<>>, sendOk |-> TRUE]}
    \cup [anchorOk : {TRUE}, fetchOk : {TRUE}, rows : RowSeqs, sendOk : BOOLEAN]

(* the history after a poll: a step that leaves COOLDOWN is recorded and
   starts the count of exceeding steps afresh, itself not counted *)
HistAfter(p) ==
    IF p.log.path # "stepped" THEN hist
    ELSE IF p.log.via = <<"NORMAL">>
    THEN [exits |-> Append(hist.exits, now), hits |-> 0, first |-> None]
    ELSE IF p.log.flag
    THEN [hist EXCEPT !.hits = @ + 1,
                      !.first = IF hist.hits = 0 THEN now ELSE @]
    ELSE [hist EXCEPT !.hits = 0, !.first = None]

(* what a poll() that came to p leaves behind *)
PollEffects(p) ==
    LET stepped == p.log.path = "stepped"
    IN /\ last_anchor' = p.last_anchor
       /\ fsm' = p.fsm
       /\ last' = p.log
       /\ alerts' = IF p.log.ev = "ALERT" THEN Append(alerts, now) ELSE alerts
       /\ runLen' = IF ~stepped THEN runLen
                    ELSE IF p.log.flag THEN runLen + 1 ELSE 0
       /\ runStart' = IF ~stepped THEN runStart
                      ELSE IF ~p.log.flag THEN None
                      ELSE IF runLen = 0 THEN now ELSE runStart
       /\ cdEntered' = IF fsm.state # "COOLDOWN" /\ p.fsm.state = "COOLDOWN"
                       THEN now ELSE cdEntered
       /\ hist' = HistAfter(p)
       /\ peer' = PeerAfterPoll(p)
       /\ UNCHANGED <<cfg, kind, now, latest, stopped, fact, res, fetched,
                      table, schedVars>>

(* DeviceWorker.poll with the outcomes io of its I/O calls *)
PollWith(io) ==
    \E p \in {PollRun(io.anchorOk, io.fetchOk, io.rows, io.sendOk)} :
        PollEffects(p)

(* DeviceWorker.poll *)
Poll == \E io \in IoOutcomes : PollWith(io)

Next == Tick \/ StoreWrite \/ Poll

Spec == Init /\ [][Next]_vars

----------------------------------------------------------------------------
(* The worker with shutdown(): poll() is taken in two steps, up to its await
   of notifier.send and from there to its end, and shutdown() may be called
   between them *)

(* poll() from its start to await notifier.send(event), or to its end when
   it has no Event to send; one poll of the worker at a time *)
PollBegin ==
    /\ last.sent # "pending"
    /\ \E io \in {o \in IoOutcomes : o.sendOk} :
         \E p \in {PollRun(io.anchorOk, io.fetchOk, io.rows, io.sendOk)} :
            PollEffects([p EXCEPT !.log.sent =
                            IF p.log.ev # "NONE" THEN "pending" ELSE @])

(* notifier.send comes back, or raises and is caught: poll() returns *)
PollEnd ==
    /\ last.sent = "pending"
    /\ \E r \in {"ok", "failed"} : last' = [last EXCEPT !.sent = r]
    /\ UNCHANGED <<cfg, kind, now, latest, stopped, last_anchor, fsm, alerts,
                   runLen, runStart, cdEntered, hist, fact, res, fetched, table,
                   peer, schedVars>>

(* main.py: the wait for run() after the shutdown() calls times out and the
   cancellation reaches the poll at its await *)
PollCancelled ==
    /\ stopped /\ last.sent = "pending"
    /\ last' = [last EXCEPT !.sent = "cancelled"]
    /\ UNCHANGED <<cfg, kind, now, latest, stopped, last_anchor, fsm, alerts,
                   runLen, runStart, cdEntered, hist, fact, res, fetched, table,
                   peer, schedVars>>

InitStop == Init /\ cfg = ConfigOf(Tunable(0, 1, 0, 1), SplOnly)

NextStop ==
    Tick \/ StoreWrite \/ PollBegin \/ PollEnd \/ PollCancelled \/ Shutdown

SpecStop == InitStop /\ [][NextStop]_vars

----------------------------------------------------------------------------
(* The worker under persistent exceedance: before every poll the clock
   advances and the store has a newer row, the reads succeed and the window
   exceeds *)

(* polls made *)
MaxRounds == 10

(* longest time between two polls *)
MaxStep == 2

(* the I/O outcomes of a poll whose reads succeed and whose window is not
   empty and exceeds; the send may fail *)
PersistIo ==
    {io \in [anchorOk : {TRUE}, fetchOk : {TRUE}, rows : RowSeqs \ {<<>>},
             sendOk : BOOLEAN] :
        IsExceeded(CheckLevelsAndBands(PollFact(latest, io.rows), cfg).fact).flag}

(* between two polls: time passes and the recorder writes a newer row *)
Advance ==
    /\ latest = None \/ last_anchor = latest
    /\ latest < MaxRounds
    /\ \E d \in 1..MaxStep : now' = now + d
    /\ latest' = IF latest = None THEN 1 ELSE latest + 1
    /\ UNCHANGED <<cfg, kind, stopped, last_anchor, fsm, last, alerts,
                   runLen, runStart, cdEntered, hist, fact, res, fetched, table,
                   peer, schedVars>>

(* the poll of the tick *)
PersistPoll ==
    /\ latest # None /\ last_anchor # latest
    /\ \E io \in PersistIo : PollWith(io)

NextPersist == Advance \/ PersistPoll

SpecPersist == Init /\ [][NextPersist]_vars

(* a poll is due: the store has a row newer than the recorded anchor.
   PersistPoll is enabled exactly then (some window exceeds), and every
   PersistPoll step records the anchor and so ends it. *)
PollDue == latest # None /\ last_anchor # latest

(* the scheduler keeps ticking and the recorder keeps writing: the tick is
   weakly fair, and so is the poll, whose weak fairness is that a poll
   cannot stay due for ever *)
SpecPersistFair ==
    SpecPersist /\ WF_vars(Advance) /\ []<>(~PollDue)

----------------------------------------------------------------------------
(* The threshold evaluator on its own: check_levels_and_bands and
   is_exceeded applied to an arbitrary Fact under an arbitrary Config. *)

(* level and band readings around the threshold value 2 *)
BandMaps ==
    {EmptyDict}
    \cup {[NoBands EXCEPT !["31.5_Hz"] = lo, !["1000.0_Hz"] = hi] :
            lo \in {None, 2, 3}, hi \in {None, 3}}

Facts ==
    [src : {"UMIK", "ANALOG", "OTHER"}, ts_from : {0}, ts_to : {1},
     spl_max : {None, 2, 3}, lmax_max : {None, 3},
     leq_1s_avg : {None, 3}, leq_60s_last : {None, 3},
     bands_max : BandMaps, leq_avg : {None, 3},
     exceeded_levels : {EmptyDict}, exceeded_bands : {EmptyDict}]

BandThresholds ==
    {[b \in D |-> 2] : D \in SUBSET {"31.5_Hz", "1000.0_Hz"}}

UmikThresholds ==
    [umik_thr_spl : {None, 2}, umik_thr_leq_1s : {None, 2},
     umik_thr_leq_60s : {None, 2}, umik_thr_lmax : {None, 2},
     umik_thr_bands : BandThresholds]

NoUmikThresholds ==
    [umik_thr_spl |-> None, umik_thr_leq_1s |-> None, umik_thr_leq_60s |-> None,
     umik_thr_lmax |-> None, umik_thr_bands |-> EmptyDict]

AllUmikThresholds ==
    [umik_thr_spl |-> 2, umik_thr_leq_1s |-> 2, umik_thr_leq_60s |-> 2,
     umik_thr_lmax |-> 2, umik_thr_bands |-> [b \in {"31.5_Hz", "1000.0_Hz"} |-> 2]]

AnalogThresholds ==
    [analog_thr_spl : {None, 2}, analog_thr_leq : {None, 2},
     analog_thr_lmax : {None, 2}]

NoAnalogThresholds ==
    [analog_thr_spl |-> None, analog_thr_leq |-> None, analog_thr_lmax |-> None]

AllAnalogThresholds ==
    [analog_thr_spl |-> 2, analog_thr_leq |-> 2, analog_thr_lmax |-> 2]

Merge(u, a) ==
    [umik_thr_spl |-> u.umik_thr_spl, umik_thr_leq_1s |-> u.umik_thr_leq_1s,
     umik_thr_leq_60s |-> u.umik_thr_leq_60s, umik_thr_lmax |-> u.umik_thr_lmax,
     umik_thr_bands |-> u.umik_thr_bands,
     analog_thr_spl |-> a.analog_thr_spl, analog_thr_leq |-> a.analog_thr_leq,
     analog_thr_lmax |-> a.analog_thr_lmax]

(* every combination of the thresholds of the fact's own source, with those
   of the other source all absent or all present *)
ThresholdsFor(src) ==
    IF src = "UMIK"
    THEN {Merge(u, a) : u \in UmikThresholds,
                        a \in {NoAnalogThresholds, AllAnalogThresholds}}
    ELSE IF src = "ANALOG"
    THEN {Merge(u, a) : u \in {NoUmikThresholds, AllUmikThresholds},
                        a \in AnalogThresholds}
    ELSE {Merge(u, a) : u \in {NoUmikThresholds, AllUmikThresholds},
                        a \in {NoAnalogThresholds, AllAnalogThresholds}}

InitThr ==
    /\ fact \in Facts
    /\ cfg \in {ConfigOf(Tunable(0, 1, 0, 1), thr) : thr \in ThresholdsFor(fact.src)}
    /\ res = [done |-> FALSE, raised |-> FALSE, warned |-> FALSE,
              flag |-> FALSE, fact |-> fact]
    /\ kind = "UMIK"
    /\ now = 0
    /\ latest = None
    /\ stopped = FALSE
    /\ last_anchor = None
    /\ fsm = InitFsm(0)
    /\ last = PollLog("init", FALSE, "NONE", "none")
    /\ alerts = <<>>
    /\ runLen = 0
    /\ runStart = None
    /\ cdEntered = None
    /\ hist = NoHist
    /\ fetched = <<>>
    /\ table = {}
    /\ peer = NoPeer
    /\ main = IdleMain
    /\ sched = IdleSched
    /\ tasks = {}
    /\ w_stopped = <<>>

(* fact = check_levels_and_bands(fact, cfg); flag, _, _ = is_exceeded(fact) *)
Evaluate ==
    /\ ~res.done
    /\ \E r \in {CheckLevelsAndBands(fact, cfg)} :
          res' = [done |-> TRUE, raised |-> r.raised, warned |-> r.warned,
                  flag |-> IsExceeded(r.fact).flag, fact |-> r.fact]
    /\ UNCHANGED <<cfg, fact, kind, now, latest, stopped, last_anchor, fsm, last,
                   alerts, runLen, runStart, cdEntered, hist, fetched, table, peer,
                   schedVars>>

NextThr == Evaluate

SpecThr == InitThr /\ [][NextThr]_vars

----------------------------------------------------------------------------
(* The aggregation of one window: poll() on a new worker, from the anchor
   read to _make_fact, over rows that have nulls in every pattern *)

(* rows of one window *)
MaxAggRows == 3

RECURSIVE Factorial(_)
Factorial(n) == IF n <= 1 THEN 1 ELSE n * Factorial(n - 1)

(* readings are multiples of a step that every row count up to MaxAggRows
   divides, so that each mean is a whole number and SafeAvg is exact *)
AggVals == {None, Factorial(MaxAggRows), 2 * Factorial(MaxAggRows)}

(* a row with reading a in spl, leq_1s and the 31.5 Hz band, and reading b
   in lmax, leq_60s, leq and the 1000 Hz band *)
AggRow(a, b) ==
    [spl |-> a, lmax |-> b, leq_1s |-> a, leq_60s |-> b, leq |-> b,
     bands |-> [NoBands EXCEPT !["31.5_Hz"] = a, !["1000.0_Hz"] = b]]

AggRowSeqs ==
    UNION {[1..n -> {AggRow(a, b) : a, b \in AggVals}] : n \in 1..MaxAggRows}

(* window_seconds as configured: negative, zero, positive *)
Windows == {-1, 0, 1, 5}

InitFact ==
    /\ cfg \in {[ConfigOf(Tunable(0, 1, 0, 1), SplOnly) EXCEPT !.window_seconds = w] :
                  w \in Windows}
    /\ kind \in {"UMIK", "ANALOG"}
    /\ latest \in {1, MaxAnchor}
    /\ fetched = <<>>
    /\ table = {}
    /\ peer = NoPeer
    /\ fact = IdleFact
    /\ res = IdleRes
    /\ now = 0
    /\ stopped = FALSE
    /\ last_anchor = None
    /\ fsm = InitFsm(0)
    /\ last = PollLog("init", FALSE, "NONE", "none")
    /\ alerts = <<>>
    /\ runLen = 0
    /\ runStart = None
    /\ cdEntered = None
    /\ hist = NoHist
    /\ main = IdleMain
    /\ sched = IdleSched
    /\ tasks = {}
    /\ w_stopped = <<>>

(* poll() from the anchor read to fact = self._make_fact(rows, ts_from, ts_to) *)
Aggregate ==
    /\ ~stopped /\ latest # None /\ ~AnchorUnchanged(latest)
    /\ \E r \in AggRowSeqs :
          /\ fetched' = r
          /\ fact' = PollFact(latest, r)
    /\ last_anchor' = latest
    /\ UNCHANGED <<cfg, kind, now, latest, stopped, fsm, last, alerts, runLen,
                   runStart, cdEntered, hist, res, table, peer, schedVars>>

NextFact == Aggregate

SpecFact == InitFact /\ [][NextFact]_vars

----------------------------------------------------------------------------
(* db_client.py: the window fetch over the rows of the table.  Timestamps
   are whole epoch seconds (the REAL/INTEGER arm of the WHERE clause). *)

(* latest timestamp a row may have *)
MaxStoreTs == 3

(* LIMIT_LAST_U / LIMIT_LAST_A set below the number of rows a window holds *)
RowCap == 2

(* a reading, null or one of two values, on the grid on which SafeAvg is
   exact *)
StoreVals == AggVals

(* a row of measurements (weight_type "") or of weighted_measurements *)
StoreRow(ts, a, wt) ==
    [timestamp |-> ts, weight_type |-> wt,
     spl |-> a, lmax |-> a, leq_1s |-> a, leq_60s |-> a, leq |-> a,
     bands |-> [NoBands EXCEPT !["31.5_Hz"] = a]]

(* DBClient.latest_ts: ORDER BY timestamp DESC LIMIT 1 *)
LatestTs(tbl) ==
    IF tbl = {} THEN None
    ELSE CHOOSE t \in {r.timestamp : r \in tbl} :
            \A r \in tbl : r.timestamp <= t

(* timestamp BETWEEN ts_from AND ts_to *)
Between(r, ts_from, ts_to) == ts_from <= r.timestamp /\ r.timestamp <= ts_to

(* ORDER BY timestamp DESC *)
RECURSIVE Descending(_)
Descending(S) ==
    IF S = {} THEN <<>>
    ELSE LET r == CHOOSE x \in S : \A y \in S : y.timestamp <= x.timestamp
         IN <<r>> \o Descending(S \ {r})

(* LIMIT *)
Limit(rows, limit) ==
    SubSeq(rows, 1, IF Len(rows) < limit THEN Len(rows) ELSE limit)

(* DBClient.fetch_umik_window *)
FetchUmikWindow(tbl, ts_from, ts_to, limit) ==
    Limit(Descending({r \in tbl : Between(r, ts_from, ts_to)}), limit)

(* DBClient.fetch_analog_window; weight_type "" stands for None *)
FetchAnalogWindow(tbl, ts_from, ts_to, limit, weight_type) ==
    IF weight_type # ""
    THEN Limit(Descending({r \in tbl : /\ Between(r, ts_from, ts_to)
                                       /\ r.weight_type = weight_type}), limit)
    ELSE Limit(Descending({r \in tbl : Between(r, ts_from, ts_to)}), limit)

(* the window fetch of poll() for the anchor *)
PollFetch(anchor) ==
    LET ts_to == anchor
        ts_from == WindowFrom(ts_to, cfg.window_seconds)
    IN IF kind = "UMIK"
       THEN FetchUmikWindow(table, ts_from, ts_to, cfg.limit_last_u)
       ELSE FetchAnalogWindow(table, ts_from, ts_to, cfg.limit_last_a,
                              cfg.analog_weight_type)

InitStore ==
    /\ cfg \in {[ConfigOf(Tunable(0, 1, 0, 1), SplOnly)
                    EXCEPT !.window_seconds = w,
                           !.limit_last_u = l, !.limit_last_a = l,
                           !.analog_weight_type = wt] :
                  w \in {1, 2}, l \in {RowCap, 200}, wt \in {"", "A"}}
    /\ kind \in {"UMIK", "ANALOG"}
    /\ table = {}
    /\ latest = None
    /\ fetched = <<>>
    /\ peer = NoPeer
    /\ fact = IdleFact
    /\ res = IdleRes
    /\ now = 0
    /\ stopped = FALSE
    /\ last_anchor = None
    /\ fsm = InitFsm(0)
    /\ last = PollLog("init", FALSE, "NONE", "none")
    /\ alerts = <<>>
    /\ runLen = 0
    /\ runStart = None
    /\ cdEntered = None
    /\ hist = NoHist
    /\ main = IdleMain
    /\ sched = IdleSched
    /\ tasks = {}
    /\ w_stopped = <<>>

(* the recorder inserts a row *)
Record ==
    /\ \E ts \in 1..MaxStoreTs, a \in StoreVals,
          wt \in IF kind = "UMIK" THEN {""} ELSE {"A", "C"} :
          /\ \A r \in table : r.timestamp # ts
          /\ table' = table \cup {StoreRow(ts, a, wt)}
    /\ latest' = LatestTs(table')
    /\ UNCHANGED <<cfg, kind, now, stopped, last_anchor, fsm, last, alerts,
                   runLen, runStart, cdEntered, hist, fact, res, fetched, peer,
                   schedVars>>

(* poll() from the anchor read to _make_fact, the fetch reading the table:
   the anchor is recorded, and a Fact is built unless no row came back *)
FetchWindow ==
    /\ ~stopped /\ latest # None /\ ~AnchorUnchanged(latest)
    /\ \E r \in {PollFetch(latest)} :
          /\ fetched' = r
          /\ fact' = IF r = <<>> THEN fact ELSE PollFact(latest, r)
    /\ last_anchor' = latest
    /\ UNCHANGED <<cfg, kind, now, latest, stopped, fsm, last, alerts, runLen,
                   runStart, cdEntered, hist, res, table, peer, schedVars>>

NextStore == Record \/ FetchWindow

SpecStore == InitStore /\ [][NextStore]_vars

----------------------------------------------------------------------------
(* Two workers, one per source, polled in any order *)

MaxPairTime == 1

MaxPairAnchor == 2

(* the fields of the worker the event loop is running *)
Running ==
    [kind |-> kind, latest |-> latest, stopped |-> stopped,
     last_anchor |-> last_anchor, fsm |-> fsm, last |-> last,
     alerts |-> alerts, runLen |-> runLen, runStart |-> runStart,
     cdEntered |-> cdEntered, hist |-> hist]

(* _startup with both sources enabled: a UMIK and an ANALOG worker *)
InitPair ==
    /\ cfg \in {ConfigOf(Tunable(0, 1, 0, 1), SplOnly),
                ConfigOf(Tunable(1, 2, 0, 2), SplOnly)}
    /\ kind = "UMIK"
    /\ now = 0
    /\ latest = None
    /\ stopped = FALSE
    /\ last_anchor = None
    /\ fsm = InitFsm(0)
    /\ last = PollLog("init", FALSE, "NONE", "none")
    /\ alerts = <<>>
    /\ runLen = 0
    /\ runStart = None
    /\ cdEntered = None
    /\ hist = NoHist
    /\ fact = IdleFact
    /\ res = IdleRes
    /\ fetched = <<>>
    /\ table = {}
    /\ peer = WorkerFields("ANALOG", 0)
    /\ main = IdleMain
    /\ sched = IdleSched
    /\ tasks = {}
    /\ w_stopped = <<>>

PairTick == now < MaxPairTime /\ Tick

(* a write to the table of the running worker's source *)
PairStoreWrite == StoreWrite /\ latest' <= MaxPairAnchor

(* the event loop goes from the poll task of one worker to that of the
   other: the tasks of a tick run one after the other in either order *)
Switch ==
    /\ peer' = Running
    /\ kind' = peer.kind
    /\ latest' = peer.latest
    /\ stopped' = peer.stopped
    /\ last_anchor' = peer.last_anchor
    /\ fsm' = peer.fsm
    /\ last' = peer.last
    /\ alerts' = peer.alerts
    /\ runLen' = peer.runLen
    /\ runStart' = peer.runStart
    /\ cdEntered' = peer.cdEntered
    /\ hist' = peer.hist
    /\ UNCHANGED <<cfg, now, fact, res, fetched, table, schedVars>>

NextPair == PairTick \/ PairStoreWrite \/ Poll \/ Switch

SpecPair == InitPair /\ [][NextPair]_vars

----------------------------------------------------------------------------
(* Properties *)

(* the step is a poll() call: of the actions, only Poll leaves the clock and
   the store alone *)
PollTaken == UNCHANGED <<cfg, kind, now, latest, stopped, fact, res, fetched, schedVars>>

(* a poll() call that got as far as step() *)
PollStepped == PollTaken /\ last'.path = "stepped" /\ last_anchor' # last_anchor

(* C1: any two ALERT events of the source are at least retriggerGap apart *)
C1_AlertsRetriggerGapApart ==
    \A i, j \in DOMAIN alerts :
        i < j => alerts[j] - alerts[i] >= cfg.retrigger_gap_ms

(* two ALERTs under a gap longer than the cooldown, exactly the gap apart *)
C1_Witness ==
    /\ Len(alerts) >= 2
    /\ cfg.retrigger_gap_ms > cfg.cooldown_ms
    /\ alerts[2] - alerts[1] = cfg.retrigger_gap_ms

(* C2: a step emits an ALERT only from NORMAL, on an exceeding window, with at
   least consecutiveRequired back-to-back exceeding steps ending at it and at
   least triggerHold elapsed since the first step of that run; when the count
   or the hold falls short in NORMAL, no ALERT is emitted and the state stays
   NORMAL *)
C2_AlertNeedsCountAndHold ==
    [][PollStepped =>
        /\ last'.ev = "ALERT" =>
              /\ fsm.state = "NORMAL"
              /\ last'.flag
              /\ runLen' >= cfg.consecutive_required
              /\ runStart' # None
              /\ now - runStart' >= cfg.trigger_hold_ms
        /\ ( /\ fsm.state = "NORMAL"
             /\ \/ runLen' < cfg.consecutive_required
                \/ runStart' = None
                \/ now - runStart' < cfg.trigger_hold_ms )
           => last'.ev # "ALERT" /\ fsm'.state = "NORMAL"]_vars

(* an ALERT fired on the second poll of a run, with the count and the hold
   both required and just met *)
C2_Witness ==
    /\ last.path = "stepped" /\ last.ev = "ALERT"
    /\ cfg.consecutive_required = 2 /\ cfg.trigger_hold_ms = 1
    /\ runLen = 2 /\ runStart # None /\ fsm.last_alert_at_ms - runStart = 1
    /\ fsm.state = "COOLDOWN"

(* C3: a step taken in COOLDOWN moves to NORMAL iff at least cooldownDuration
   has elapsed since COOLDOWN was entered, whatever the exceedance flag; on
   that transition both counters are 0 and both markers None; before that
   the state remains COOLDOWN *)
C3_CooldownEndsExactlyAfterDuration ==
    [][(PollStepped /\ fsm.state = "COOLDOWN") =>
        /\ cdEntered # None
        /\ (fsm'.state = "NORMAL") <=> (now - cdEntered >= cfg.cooldown_ms)
        /\ fsm'.state = "NORMAL" =>
              /\ fsm'.consec_hit = 0 /\ fsm'.consec_ok = 0
              /\ fsm'.active_since = None /\ fsm'.recovery_since = None
        /\ fsm'.state # "NORMAL" => fsm'.state = "COOLDOWN"]_vars

(* an exceeding step left COOLDOWN exactly cooldownDuration after entry *)
C3_Witness ==
    /\ last.path = "stepped" /\ last.flag
    /\ fsm.state = "NORMAL" /\ cdEntered # None
    /\ fsm.last_transition = now
    /\ now - cdEntered = cfg.cooldown_ms

(* C4, as claimed: any poll made cooldownDuration or more after COOLDOWN was
   entered leaves the source in NORMAL *)
C4_AnyPollLeavesCooldown ==
    [][(PollTaken /\ fsm.state = "COOLDOWN" /\ cdEntered # None
        /\ now - cdEntered >= cfg.cooldown_ms)
       => fsm'.state = "NORMAL"]_vars

(* C4, amended: a poll that reaches the state machine cooldownDuration or
   more after COOLDOWN was entered leaves the source in NORMAL, whatever the
   exceedance flag *)
C4_SteppingPollLeavesCooldown ==
    [][(PollStepped /\ fsm.state = "COOLDOWN" /\ cdEntered # None
        /\ now - cdEntered >= cfg.cooldown_ms)
       => fsm'.state = "NORMAL"]_vars

(* an exceeding poll, later than the cooldown's end, brought the source back
   to NORMAL *)
C4_Witness ==
    /\ last.path = "stepped" /\ last.flag
    /\ fsm.state = "NORMAL" /\ cdEntered # None
    /\ fsm.last_transition = now
    /\ now - cdEntered > cfg.cooldown_ms

(* C5: any two ALERT events of the source are at least cooldownDuration
   apart, whatever is observed in between *)
C5_AlertsCooldownApart ==
    \A i, j \in DOMAIN alerts :
        i < j => alerts[j] - alerts[i] >= cfg.cooldown_ms

(* two ALERTs under a cooldown longer than the retrigger gap *)
C5_Witness ==
    /\ Len(alerts) >= 2
    /\ cfg.cooldown_ms > cfg.retrigger_gap_ms
    /\ runLen > cfg.consecutive_required

(* C6: a poll whose store anchor is not greater than the recorded anchor
   changes nothing and returns before the fetch; a poll that aggregates does
   so for an anchor greater than the recorded one and records it; the
   recorded anchor never decreases *)
C6_OneAggregationPerAnchor ==
    [][PollTaken =>
        /\ (latest # None /\ last_anchor # None /\ latest <= last_anchor) =>
              /\ UNCHANGED <<last_anchor, fsm, alerts, runLen, runStart, cdEntered>>
              /\ last'.path \in {"unchanged", "anchor_failed"}
              /\ last'.ev = "NONE"
        /\ last'.path = "stepped" =>
              /\ latest # None /\ latest > last_anchor
              /\ last_anchor' = latest
        /\ last_anchor' >= last_anchor]_vars

(* a poll found the anchor it had already aggregated and returned *)
C6_Witness ==
    /\ last.path = "unchanged"
    /\ latest = last_anchor
    /\ fsm.consec_hit + fsm.consec_ok > 0

(* C7: a poll whose window fetch fails leaves the recorded anchor and the
   state machine as they were *)
C7_FetchFailureHasNoSideEffects ==
    [][(PollTaken /\ last'.path = "fetch_failed") =>
        (last_anchor' = last_anchor /\ fsm' = fsm)]_vars

(* the aggregate and the configured threshold of level k of source src *)
LevelValue(f, src, k) ==
    CASE k = "spl" /\ src \in {"UMIK", "ANALOG"} -> f.spl_max
      [] k = "lmax" /\ src \in {"UMIK", "ANALOG"} -> f.lmax_max
      [] k = "leq_1s" /\ src = "UMIK" -> f.leq_1s_avg
      [] k = "leq_60s" /\ src = "UMIK" -> f.leq_60s_last
      [] k = "leq" /\ src = "ANALOG" -> f.leq_avg
      [] OTHER -> None

LevelThreshold(c, src, k) ==
    CASE k = "spl" /\ src = "UMIK" -> c.umik_thr_spl
      [] k = "spl" /\ src = "ANALOG" -> c.analog_thr_spl
      [] k = "lmax" /\ src = "UMIK" -> c.umik_thr_lmax
      [] k = "lmax" /\ src = "ANALOG" -> c.analog_thr_lmax
      [] k = "leq_1s" /\ src = "UMIK" -> c.umik_thr_leq_1s
      [] k = "leq_60s" /\ src = "UMIK" -> c.umik_thr_leq_60s
      [] k = "leq" /\ src = "ANALOG" -> c.analog_thr_leq
      [] OTHER -> None

LevelNames == {"spl", "leq_1s", "leq_60s", "lmax", "leq"}

BandConfigured(c, src, b) == src = "UMIK" /\ b \in DOMAIN c.umik_thr_bands

(* threshold configured, aggregate present, aggregate strictly above *)
LevelComparison(f, c, k) ==
    /\ LevelThreshold(c, f.src, k) # None
    /\ LevelValue(f, f.src, k) # None
    /\ LevelValue(f, f.src, k) > LevelThreshold(c, f.src, k)

BandComparison(f, c, b) ==
    /\ BandConfigured(c, f.src, b)
    /\ b \in DOMAIN f.bands_max
    /\ f.bands_max[b] # None
    /\ f.bands_max[b] > c.umik_thr_bands[b]

(* C8: the overall exceeded flag is true iff at least one level or band
   comparison is true; a level or band with no configured threshold never
   makes it true *)
C8_FlagIffSomeComparison ==
    res.done =>
        (res.flag <=> \/ \E k \in LevelNames : LevelComparison(fact, cfg, k)
                      \/ \E b \in BandCols : BandComparison(fact, cfg, b))

(* the flag raised by a band alone, while a level without a threshold reads
   above the value the other thresholds use *)
C8_Witness ==
    /\ res.done /\ res.flag
    /\ fact.src = "UMIK"
    /\ cfg.umik_thr_spl = None /\ fact.spl_max = 3
    /\ \A k \in LevelNames : ~LevelComparison(fact, cfg, k)

(* C9: in the result a level or band is true iff its threshold is configured,
   its aggregate is present and the aggregate is strictly greater; a level or
   band without a configured threshold has no entry *)
C9_EntryTrueIffStrictlyAbove ==
    res.done =>
        /\ \A k \in LevelNames :
              /\ (k \in DOMAIN res.fact.exceeded_levels /\ res.fact.exceeded_levels[k])
                    <=> LevelComparison(fact, cfg, k)
              /\ LevelThreshold(cfg, fact.src, k) = None
                    => k \notin DOMAIN res.fact.exceeded_levels
        /\ \A b \in BandCols :
              /\ (b \in DOMAIN res.fact.exceeded_bands /\ res.fact.exceeded_bands[b])
                    <=> BandComparison(fact, cfg, b)
              /\ ~BandConfigured(cfg, fact.src, b)
                    => b \notin DOMAIN res.fact.exceeded_bands

(* an aggregate equal to its threshold gives a false entry, one without a
   threshold gives none *)
C9_Witness ==
    /\ res.done /\ fact.src = "UMIK"
    /\ cfg.umik_thr_spl = 2 /\ fact.spl_max = 2
    /\ "spl" \in DOMAIN res.fact.exceeded_levels
    /\ ~res.fact.exceeded_levels["spl"]
    /\ cfg.umik_thr_lmax = None /\ fact.lmax_max = 3
    /\ "lmax" \notin DOMAIN res.fact.exceeded_levels
    /\ "31.5_Hz" \in DOMAIN res.fact.exceeded_bands
    /\ ~res.fact.exceeded_bands["31.5_Hz"]

(* C10: a Fact whose src is neither UMIK nor ANALOG is reported to the caller
   as an error *)
C10_UnknownSourceIsReported ==
    (res.done /\ fact.src \notin {"UMIK", "ANALOG"}) => res.raised

----------------------------------------------------------------------------
(* Properties of the Scheduler and main() *)

(* the polls run() has created and not yet seen settle *)
InFlight(ts) == {t \in ts : ~Settled(t)}

(* C11: ticks never overlap: a tick creates exactly one poll per registered
   worker, it starts only when no poll of an earlier tick is still in
   flight, polls are created by ticks only, and a worker never has two
   polls in flight *)
C11_TicksNeverOverlap ==
    [][/\ \A t1, t2 \in InFlight(tasks') : t1.w = t2.w => t1 = t2
       /\ \A t \in InFlight(tasks') : t.tick = sched'.tick
       /\ sched'.tick # sched.tick =>
             /\ sched'.tick = sched.tick + 1
             /\ InFlight(tasks) = {}
             /\ \A i \in DOMAIN sched.workers :
                   Cardinality({t \in tasks' \ tasks :
                                   /\ t.w = sched.workers[i]
                                   /\ t.tick = sched'.tick
                                   /\ t.st = "created"}) = 1
             /\ Cardinality(tasks' \ tasks) = Len(sched.workers)
       /\ (\E t \in tasks' \ tasks : t.st = "created") =>
             sched'.tick = sched.tick + 1]_vars

(* the second tick of two workers, one poll suspended in notifier.send and
   the other having raised *)
C11_Witness ==
    /\ sched.tick = 2 /\ Len(sched.workers) = 2 /\ sched.pc = "gather"
    /\ \E t \in tasks : t.tick = 2 /\ t.st = "sending"
    /\ \E t \in tasks : t.tick = 2 /\ t.st = "raised"

(* C12: a poll that raises changes no other poll and not the scheduler; the
   tick's gather then returns only with every poll of the tick settled and
   run() goes on to its sleep (run() never fails); the next tick polls every
   worker again, those logged as failed included; and unless a stop is
   requested that next tick does come *)
C12_PollFailureIsContained ==
    /\ [][/\ sched'.pc # "failed"
          /\ \A t \in tasks' \ tasks :
                t.st = "raised" =>
                   /\ sched' = sched
                   /\ tasks' \ {t} = tasks \ {[t EXCEPT !.st = "created"]}
          /\ ( /\ sched.pc = "gather" /\ sched'.pc # "gather"
               /\ \E t \in tasks : t.tick = sched.tick /\ t.st = "raised"
               /\ sched'.pc # "cancelled" )
             => /\ sched'.pc = "sleep"
                /\ InFlight(tasks) = {}
                /\ \E t \in tasks : t.st = "raised" /\ t.w \in sched'.logged
          /\ sched'.tick # sched.tick =>
                \A w \in sched.logged :
                   [w |-> w, tick |-> sched'.tick, st |-> "created"] \in tasks'
         ]_vars
    /\ \A n \in 1..(MaxTicks - 1) :
          (sched.tick = n /\ sched.pc = "sleep" /\ sched.logged # {})
             ~> (sched.tick = n + 1 \/ sched.stop_event)

(* the worker whose poll raised in the first tick has been polled again in
   the second, where its poll returned, next to the other worker's *)
C12_Witness ==
    /\ sched.tick = 2 /\ Len(sched.workers) = 2
    /\ sched.logged # {} /\ sched.logged # DOMAIN w_stopped
    /\ \E t \in tasks : t.tick = 2 /\ t.w \in sched.logged /\ t.st = "returned"
    /\ ~sched.stop_event

(* C13: once stop() has been called no tick starts and no poll is created;
   stop() itself touches neither the polls in flight nor run()'s position;
   from its sleep run() can leave at once, whatever is left of the sleep,
   and leaves only to end; from gather it goes on only when every poll has
   settled (or is cancelled by main()), and then to the sleep it leaves at
   once; and run() does end *)
C13_NoTickAfterStop ==
    /\ [][/\ sched.stop_event =>
                /\ sched'.tick = sched.tick
                /\ \A t \in tasks' \ tasks : t.st # "created"
                /\ (sched.pc = "sleep" /\ sched'.pc # "sleep") =>
                      sched'.pc \in {"done", "cancelled"}
                /\ (sched.pc = "gather" /\ sched'.pc \notin {"gather", "cancelled"}) =>
                      (sched'.pc = "sleep" /\ InFlight(tasks) = {})
                /\ sched.pc = "done" => sched'.pc = "done"
          /\ (~sched.stop_event /\ sched'.stop_event) =>
                (tasks' = tasks /\ sched'.pc = sched.pc)
         ]_vars
    /\ [](sched.stop_event /\ sched.pc = "sleep" => ENABLED StopWakes)
    /\ sched.stop_event ~> sched.pc \in {"done", "cancelled"}

(* stop() came while a poll was suspended in notifier.send; the poll came
   back, run() reached its sleep and ended with the whole sleep left, in the
   tick it was in *)
C13_Witness ==
    /\ sched.pc = "done" /\ main.stopped_in = "gather"
    /\ sched.tick = 1
    /\ sched.sleep_left = SleepTimeout(sched) /\ sched.sleep_left > 0
    /\ tasks = {}

(* C14: after the termination signal main() always reaches its stopped
   state: by then the scheduler has been asked to stop and shutdown() has
   been called on every worker, the wait for run() is never longer than the
   timeout, and at the end run() has ended or been cancelled with no poll
   left in flight *)
C14_ShutdownTerminates ==
    /\ [](main.pc \in {"wait_run", "stopped"} =>
             /\ sched.stop_event
             /\ \A w \in DOMAIN w_stopped : w_stopped[w]
             /\ main.wait_left <= ShutdownTimeout)
    /\ [](main.pc = "stopped" =>
             /\ sched.pc \in {"done", "cancelled"}
             /\ InFlight(tasks) = {}
             /\ main.exit_code = 0)
    /\ main.stop_event ~> main.pc = "stopped"

(* a poll never came back from notifier.send: the wait timed out, run() and
   the poll were cancelled, main() stopped *)
C14_Witness ==
    /\ main.pc = "stopped" /\ main.wait_left = 0
    /\ sched.pc = "cancelled"
    /\ \E t \in tasks : t.st = "cancelled"
    /\ \A w \in DOMAIN w_stopped : w_stopped[w]

----------------------------------------------------------------------------
(* Properties of the worker's error handling *)

(* C15: a poll whose notification delivery fails returns without raising,
   having stepped the machine and recorded the anchor; the recorded anchor,
   the machine and the event are those of the same poll with a successful
   delivery, and the ALERT's transition to COOLDOWN stays committed *)
C15_SendFailureKeepsTransition ==
    /\ [][(PollTaken /\ last'.sent = "failed") =>
            /\ ~last'.raised
            /\ last'.path = "stepped" /\ last'.ev \in {"ALERT", "RECOVERY"}
            /\ last_anchor' = latest
            /\ \E r \in RowSeqs :
                  \E ok \in {PollRun(TRUE, TRUE, r, TRUE)} :
                     /\ ok.log = [last' EXCEPT !.sent = "ok"]
                     /\ ok.fsm = fsm'
                     /\ ok.last_anchor = last_anchor'
            /\ last'.ev = "ALERT" =>
                  /\ fsm.state = "NORMAL" /\ fsm'.state = "COOLDOWN"
                  /\ fsm'.last_alert_at_ms = now
                  /\ alerts' = Append(alerts, now)
         ]_vars
    /\ [](\A r \in RowSeqs :
            /\ PollRun(TRUE, TRUE, r, FALSE).fsm = PollRun(TRUE, TRUE, r, TRUE).fsm
            /\ PollRun(TRUE, TRUE, r, FALSE).last_anchor
                  = PollRun(TRUE, TRUE, r, TRUE).last_anchor)

(* the delivery of an ALERT failed: the source is in COOLDOWN since this
   poll and the anchor is recorded *)
C15_Witness ==
    /\ last.path = "stepped" /\ last.ev = "ALERT" /\ last.sent = "failed"
    /\ fsm.state = "COOLDOWN" /\ fsm.last_alert_at_ms = now
    /\ last_anchor = latest
    /\ alerts # <<>>

(* C16: a poll whose anchor read fails, or that finds no latest timestamp in
   the store, returns without raising and leaves the recorded anchor and the
   machine as they were; a store without a latest timestamp always ends the
   poll so; and the next poll reads the anchor again, going on to the fetch
   when the read succeeds and the store has moved on *)
C16_NoAnchorIsNoOp ==
    [][PollTaken =>
        /\ last'.path \in {"anchor_failed", "no_data"} =>
              /\ ~last'.raised
              /\ last'.ev = "NONE" /\ last'.sent = "none"
              /\ UNCHANGED <<last_anchor, fsm, alerts, runLen, runStart, cdEntered>>
        /\ (~stopped /\ latest = None) => last'.path \in {"anchor_failed", "no_data"}
        /\ ( /\ last.path \in {"anchor_failed", "no_data"}
             /\ ~stopped /\ latest # None
             /\ last_anchor = None \/ latest > last_anchor
             /\ last'.path # "anchor_failed" )
           => /\ last'.path \in {"fetch_failed", "no_rows", "stepped"}
              /\ last_anchor' = latest]_vars

(* the anchor read failed on a worker that had already aggregated a window
   and counted an exceedance; the store has moved on since *)
C16_Witness ==
    /\ last.path = "anchor_failed"
    /\ last_anchor # None /\ latest > last_anchor
    /\ fsm.consec_hit > 0

----------------------------------------------------------------------------
(* Properties of the aggregation *)

(* the rows of the window that have a value in the column *)
Present(col) == {i \in DOMAIN col : col[i] # None}

RECURSIVE SumAt(_, _)
SumAt(col, S) ==
    IF S = {} THEN 0
    ELSE LET i == CHOOSE j \in S : TRUE IN col[i] + SumAt(col, S \ {i})

(* m is null when the column has no value, else the greatest of its values *)
IsMaxOf(m, col) ==
    IF Present(col) = {} THEN m = None
    ELSE /\ m # None /\ m # 0
         /\ \E i \in Present(col) : col[i] = m
         /\ \A i \in Present(col) : col[i] <= m

(* a is null when the column has no value, else the mean of its values *)
IsMeanOf(a, col) ==
    IF Present(col) = {} THEN a = None
    ELSE /\ a # None /\ a # 0
         /\ a * Cardinality(Present(col)) = SumAt(col, Present(col))

(* C17: of a non-empty window every max aggregate, average aggregate and
   band max is null exactly when its column is null in every row, and else
   is the max (the mean) of the column's non-null values, each band by its
   own column *)
C17_AggregatesIgnoreNulls ==
    fetched # <<>> =>
       /\ IsMaxOf(fact.spl_max, [i \in DOMAIN fetched |-> fetched[i].spl])
       /\ IsMaxOf(fact.lmax_max, [i \in DOMAIN fetched |-> fetched[i].lmax])
       /\ kind = "UMIK" =>
             /\ IsMeanOf(fact.leq_1s_avg,
                         [i \in DOMAIN fetched |-> fetched[i].leq_1s])
             /\ DOMAIN fact.bands_max = BandCols
             /\ \A b \in BandCols :
                   IsMaxOf(fact.bands_max[b],
                           [i \in DOMAIN fetched |-> fetched[i].bands[b]])
       /\ kind = "ANALOG" =>
             IsMeanOf(fact.leq_avg, [i \in DOMAIN fetched |-> fetched[i].leq])

(* three rows: one band null in all of them, another with a null and two
   different values, and an average over two of the three rows *)
C17_Witness ==
    /\ Len(fetched) = 3 /\ kind = "UMIK"
    /\ \A i \in DOMAIN fetched : fetched[i].bands["31.5_Hz"] = None
    /\ fact.bands_max["31.5_Hz"] = None /\ fact.spl_max = None
    /\ fetched[1].bands["1000.0_Hz"] = None
    /\ fetched[2].bands["1000.0_Hz"] > fetched[3].bands["1000.0_Hz"]
    /\ fetched[3].bands["1000.0_Hz"] # None
    /\ fact.bands_max["1000.0_Hz"] = fetched[2].bands["1000.0_Hz"]
    /\ fact.leq_1s_avg = None /\ fact.lmax_max = fetched[2].lmax

(* C18: the Fact a poll builds ends at the anchor the poll read and begins
   before it: window_seconds earlier when that is positive, one second
   earlier when it is not; the width is never under one second *)
C18_WindowEndsAtAnchor ==
    fetched # <<>> =>
       /\ fact.ts_to = latest /\ fact.ts_to = last_anchor
       /\ fact.ts_from < fact.ts_to
       /\ cfg.window_seconds > 0 => fact.ts_to - fact.ts_from = cfg.window_seconds
       /\ cfg.window_seconds <= 0 => fact.ts_to - fact.ts_from = 1
       /\ fact.ts_to - fact.ts_from >= 1

(* a Fact built under a negative window_seconds *)
C18_Witness ==
    /\ fetched # <<>> /\ cfg.window_seconds < 0
    /\ fact.ts_to = MaxAnchor /\ fact.ts_from = MaxAnchor - 1

----------------------------------------------------------------------------
(* Properties of startup *)

(* the configuration is one load_config must refuse: the named file is
   missing, a threshold (level or known band) is not a number or the band
   setting is not a JSON object, or the HTTP channel is enabled with an
   empty URL *)
Malformed(env) ==
    \/ env.file = "missing"
    \/ env.UMIK_THR_SPL \notin {"", "70", "55"}
    \/ env.UMIK_THR_BANDS.form \in {"invalid", "array"}
    \/ /\ env.UMIK_THR_BANDS.form = "object"
       /\ "1000" \in DOMAIN env.UMIK_THR_BANDS.items
       /\ env.UMIK_THR_BANDS.items["1000"] \notin {"70", "55"}
    \/ env.ALERT_HTTP_ENABLED = "true" /\ env.ALERT_HTTP_URL = ""

(* C19: load_config fails on every malformed configuration; when it fails
   main() ends with a non-zero status, the Scheduler is never built, and no
   poll is ever created *)
C19_ConfigFailureExits ==
    /\ main.pc = "load" =>
          /\ Malformed(main.env) => LoadConfig(main.env).err # ""
          /\ tasks = {} /\ sched.pc = "none"
    /\ (main.pc \notin {"idle", "load"} /\ Malformed(main.env)) => main.err # ""
    /\ main.err # "" =>
          /\ main.pc = "exited"
          /\ main.exit_code # None /\ main.exit_code # 0
          /\ tasks = {} /\ sched.pc = "none" /\ sched.tick = 0
          /\ w_stopped = <<>>

(* main() has exited on an enabled HTTP channel without URL, all else in
   the configuration being in order *)
C19_Witness ==
    /\ main.pc = "exited" /\ main.err = "ValueError" /\ main.exit_code = 1
    /\ main.env.ALERT_HTTP_ENABLED = "true" /\ main.env.ALERT_HTTP_URL = ""
    /\ main.env.file = "present" /\ main.env.DB_PATH = "db"
    /\ main.env.POLL_INTERVAL_MS = "1000" /\ main.env.UMIK_THR_SPL = "70"
    /\ main.env.UMIK_THR_BANDS.form = "unset"

----------------------------------------------------------------------------
(* Properties of the state machine, continued *)

(* C20: a step in NORMAL on an exceeding window, with the machine's count of
   consecutive exceeding steps (this one included) at consecutiveRequired or
   more, its exceedance-start marker (this step's time when unset) at least
   triggerHold back, and no ALERT yet or the last one at least retriggerGap
   back, returns an ALERT, records the time as that of the last ALERT and
   ends in COOLDOWN *)
C20_AlertFiresWhenAllConditionsMet ==
    [][( /\ PollStepped
         /\ fsm.state = "NORMAL"
         /\ last'.flag
         /\ fsm.consec_hit + 1 >= cfg.consecutive_required
         /\ now - (IF fsm.active_since = None THEN now ELSE fsm.active_since)
               >= cfg.trigger_hold_ms
         /\ \/ fsm.last_alert_at_ms = None
            \/ now - fsm.last_alert_at_ms >= cfg.retrigger_gap_ms )
       => /\ last'.ev = "ALERT"
          /\ alerts' = Append(alerts, now)
          /\ fsm'.last_alert_at_ms = now
          /\ fsm'.state = "COOLDOWN"
          /\ fsm'.last_transition = now]_vars

(* hold 2, count 3, exceeding polls at 0, 1 and 2: the ALERT fired at 2 and
   the source is in COOLDOWN *)
C20_Witness ==
    /\ cfg.trigger_hold_ms = 2 /\ cfg.consecutive_required = 3
    /\ last.path = "stepped" /\ last.ev = "ALERT" /\ last.flag
    /\ alerts = <<2>> /\ now = 2
    /\ runLen = 3 /\ runStart = 0
    /\ fsm.state = "COOLDOWN" /\ fsm.last_alert_at_ms = 2

(* the conditions of the rule of the state the step starts in, read off the
   machine's fields before the call and the flag of the window *)
AlertRuleMet ==
    /\ fsm.state = "NORMAL"
    /\ last'.flag
    /\ fsm.consec_hit + 1 >= cfg.consecutive_required
    /\ now - (IF fsm.active_since = None THEN now ELSE fsm.active_since)
          >= cfg.trigger_hold_ms
    /\ \/ fsm.last_alert_at_ms = None
       \/ now - fsm.last_alert_at_ms >= cfg.retrigger_gap_ms

RecoveryRuleMet ==
    /\ fsm.state = "ALERT"
    /\ ~last'.flag
    /\ now - (IF fsm.recovery_since = None THEN now ELSE fsm.recovery_since)
          >= cfg.recover_hold_ms

CooldownRuleMet ==
    fsm.state = "COOLDOWN" /\ now - fsm.last_transition >= cfg.cooldown_ms

(* C21: a step applies at most one transition rule and returns at most one
   Event: it assigns the state not at all, or NORMAL on leaving COOLDOWN, or
   COOLDOWN on leaving ALERT, or ALERT and at once COOLDOWN on the firing of
   an ALERT (the one passage of the NORMAL rule); the state after the call
   is the last value assigned, an ALERT is returned by the firing and by
   nothing else, a step that leaves COOLDOWN returns nothing; and a step
   that returns no Event and meets no rule leaves the state and the time of
   the last transition as they were *)
C21_OneTransitionPerStep ==
    [][PollStepped =>
        /\ last'.ev \in {"NONE", "ALERT", "RECOVERY"}
        /\ last'.via \in {<<>>, <<"NORMAL">>, <<"COOLDOWN">>,
                          <<"ALERT", "COOLDOWN">>}
        /\ last'.via # <<>> =>
              /\ fsm'.state = last'.via[Len(last'.via)]
              /\ fsm'.last_transition = now
        /\ (last'.ev = "ALERT") <=> (last'.via = <<"ALERT", "COOLDOWN">>)
        /\ last'.ev = "ALERT" => fsm.state = "NORMAL"
        /\ last'.via = <<"NORMAL">> =>
              fsm.state = "COOLDOWN" /\ last'.ev = "NONE"
        /\ last'.via = <<"COOLDOWN">> => fsm.state = "ALERT"
        /\ last'.via = <<>> =>
              /\ fsm'.state = fsm.state
              /\ fsm'.last_transition = fsm.last_transition
        /\ ( /\ last'.ev = "NONE"
             /\ ~(AlertRuleMet \/ RecoveryRuleMet \/ CooldownRuleMet) )
           => /\ fsm'.state = fsm.state
              /\ fsm'.last_transition = fsm.last_transition]_vars

(* cooldown 2: an exceeding step taken one unit into COOLDOWN returned
   nothing and left the state and the time of the transition alone *)
C21_Witness ==
    /\ cfg.cooldown_ms = 2
    /\ last.path = "stepped" /\ last.flag /\ last.ev = "NONE"
    /\ last.via = <<>>
    /\ fsm.state = "COOLDOWN"
    /\ alerts # <<>>
    /\ fsm.last_transition = alerts[Len(alerts)]
    /\ now = fsm.last_transition + 1

(* C22: after every step the state is NORMAL or COOLDOWN, never ALERT; the
   branch of the ALERT state is never taken and no RECOVERY is ever
   returned, with NOTIFY_SEND_RECOVERY on or off *)
C22_AlertStateNeverHeld ==
    /\ fsm.state \in {"NORMAL", "COOLDOWN"}
    /\ last.ev # "RECOVERY"
    /\ last.via # <<"COOLDOWN">>

(* with send_recovery on, an ALERT fired and a later non-exceeding step
   found the source back in NORMAL, no RECOVERY having been returned *)
C22_Witness ==
    /\ cfg.send_recovery
    /\ alerts # <<>> /\ fsm.last_alert_at_ms # None
    /\ last.path = "stepped" /\ ~last.flag /\ last.ev = "NONE"
    /\ fsm.state = "NORMAL"
    /\ fsm.consec_ok >= 1

(* C23: a non-exceeding step, in any state, leaves the count of consecutive
   exceeding steps at 0 and the exceedance-start marker None and returns no
   ALERT; the exceeding step that follows counts from 1 and times the hold
   from its own time, so that it fires only if one step and no hold are
   required *)
C23_QuietStepResetsTheRun ==
    [][PollStepped =>
        /\ ~last'.flag =>
              /\ fsm'.consec_hit = 0
              /\ fsm'.active_since = None
              /\ last'.ev # "ALERT"
        /\ fsm.consec_hit = 0 => fsm.active_since = None
        /\ (last'.flag /\ fsm.consec_hit = 0) =>
              /\ fsm'.consec_hit \in {0, 1}
              /\ fsm'.active_since \in {None, now}
              /\ fsm'.state = fsm.state =>
                    fsm'.consec_hit = 1 /\ fsm'.active_since = now
              /\ last'.ev = "ALERT" =>
                    /\ cfg.consecutive_required <= 1
                    /\ cfg.trigger_hold_ms <= 0]_vars

(* count 3: after a non-exceeding step an exceeding step, later on the
   clock, is the first of its run; no ALERT has fired *)
C23_Witness ==
    /\ cfg.consecutive_required = 3
    /\ last.path = "stepped" /\ last.flag /\ last.ev = "NONE"
    /\ fsm.recovery_since # None /\ fsm.recovery_since < now
    /\ fsm.consec_hit = 1 /\ fsm.active_since = now
    /\ runLen = 1 /\ runStart = now
    /\ alerts = <<>>

(* C24: after every step the non-exceedance-start marker, when not None, is
   the time of the first step of the current run of non-exceeding steps: the
   step just taken did not exceed, and if the step before it did, the run
   starts with this step *)
C24_QuietMarkerStartsTheQuietRun ==
    [][PollStepped =>
        (fsm'.recovery_since # None =>
            /\ ~last'.flag
            /\ runLen > 0 => fsm'.recovery_since = now)]_vars

----------------------------------------------------------------------------
(* Properties of two workers *)

(* C25: a poll of one worker leaves the other worker's recorded anchor,
   state machine and every other field as they were, and what it does to
   its own anchor and machine is what poll() makes of its own fields, its
   own table and the clock, whatever the other worker has done before *)
C25_PollLeavesTheOtherWorkerAlone ==
    [][(PollTaken /\ last' # last) =>
        /\ peer' = peer
        /\ \E io \in IoOutcomes :
             \E p \in {PollRun(io.anchorOk, io.fetchOk, io.rows, io.sendOk)} :
                /\ last_anchor' = p.last_anchor
                /\ fsm' = p.fsm]_vars

(* the ANALOG worker has fired an ALERT and is in COOLDOWN on anchor 2, and
   the UMIK worker, polled after it on anchor 1, has stepped a non-exceeding
   window and is in NORMAL with no ALERT *)
C25_Witness ==
    /\ kind = "UMIK" /\ peer.kind = "ANALOG"
    /\ peer.fsm.state = "COOLDOWN" /\ peer.alerts # <<>>
    /\ peer.last_anchor = 2
    /\ last.path = "stepped" /\ ~last.flag
    /\ last_anchor = 1
    /\ fsm.state = "NORMAL" /\ alerts = <<>> /\ fsm.consec_ok = 1

----------------------------------------------------------------------------
(* Properties of the window fetch *)

(* the step is the window fetch of a poll() that went on to build a Fact *)
FactBuilt == last_anchor' # last_anchor /\ fetched' # <<>>

(* C26: every row aggregated into a Fact has ts_from <= timestamp < ts_to,
   and the Fact is built from all the rows of the source's table in that
   half-open interval *)
C26_WindowIsHalfOpenAndComplete ==
    [][FactBuilt =>
        /\ \A i \in DOMAIN fetched' :
              /\ fact'.ts_from <= fetched'[i].timestamp
              /\ fetched'[i].timestamp < fact'.ts_to
        /\ {fetched'[i] : i \in DOMAIN fetched'}
              = {r \in table : /\ fact'.ts_from <= r.timestamp
                               /\ r.timestamp < fact'.ts_to}]_vars

----------------------------------------------------------------------------
(* Properties of the worker, continued *)

(* C27: an Event handed to notifier.send carries as samples the number of
   rows its window was aggregated from, and as window_sec ts_to - ts_from of
   that window *)
C27_EventCarriesSamplesAndWindow ==
    last.sent \in {"ok", "failed"} =>
        /\ last.samples = last.nrows
        /\ last.window_sec
              = last_anchor - WindowFrom(last_anchor, cfg.window_seconds)

(* C28: a poll whose window fetch returns no rows steps no machine, returns
   no Event and leaves the recorded anchor as it was *)
C28_NoRowsIsNoOp ==
    [][(PollTaken /\ last'.path = "no_rows") =>
        /\ last_anchor' = last_anchor
        /\ fsm' = fsm
        /\ last'.ev = "NONE" /\ last'.sent = "none"
        /\ alerts' = alerts]_vars

----------------------------------------------------------------------------
(* Properties of the window fetch, continued *)

(* C29: for the UMIK source leq_60s_last of a window is null when no fetched
   row has leq_60s, and else is the leq_60s of the first fetched row that
   has it, the most recent of the rows that have it *)
C29_LongAverageIsMostRecentPresent ==
    (kind = "UMIK" /\ fetched # <<>>) =>
        LET has == {i \in DOMAIN fetched : fetched[i].leq_60s # None}
        IN IF has = {} THEN fact.leq_60s_last = None
           ELSE \E i \in has :
                   /\ \A j \in has : i <= j
                   /\ \A j \in has :
                         fetched[j].timestamp <= fetched[i].timestamp
                   /\ fact.leq_60s_last = fetched[i].leq_60s

(* three rows fetched, the most recent without leq_60s, the two older with
   different values: the aggregate is the value of the second *)
C29_Witness ==
    /\ kind = "UMIK" /\ Len(fetched) = 3
    /\ fetched[1].timestamp > fetched[2].timestamp
    /\ fetched[2].timestamp > fetched[3].timestamp
    /\ fetched[1].leq_60s = None
    /\ fetched[2].leq_60s # None /\ fetched[3].leq_60s # None
    /\ fetched[2].leq_60s # fetched[3].leq_60s
    /\ fact.leq_60s_last = fetched[2].leq_60s

----------------------------------------------------------------------------
(* Properties of the Scheduler and main(), continued *)

(* C30: a poll gives up the event loop only at the notification send: a poll
   in flight has either not started, with nothing of it applied, or is at
   the send, with the anchor recorded and the machine's step applied whole;
   so the cancellation of main()'s shutdown, like the run of another
   worker's poll, finds a poll only in one of these two places, and what a
   cancelled poll can lose is the send *)
C30_PollYieldsOnlyAtSend ==
    /\ [](\A t \in InFlight(tasks) : t.st \in {"created", "sending"})
    /\ [][\A t \in tasks :
            (t \notin tasks' /\ [t EXCEPT !.st = "cancelled"] \in tasks')
               => t.st \in {"created", "sending"}]_vars
    /\ [][\A t \in tasks :
            (t.st = "created" /\ t \notin tasks')
               => \/ [t EXCEPT !.st = "cancelled"] \in tasks'
                  \/ \E st \in {"returned", "raised", "sending"} :
                        [t EXCEPT !.st = st] \in tasks'
                  \/ \A u \in tasks' : u.tick # t.tick]_vars

(* the shutdown timeout has run out with one poll at the send and another
   not yet started: the cancellation is about to reach both *)
C30_Witness ==
    /\ main.pc = "wait_run" /\ main.wait_left = 0
    /\ sched.pc = "gather"
    /\ \E t \in tasks : t.st = "sending"
    /\ \E t \in tasks : t.st = "created"

----------------------------------------------------------------------------
(* Properties of the state machine's counters *)

(* C31: after every step (and before the first) the counts of consecutive
   exceeding and of consecutive non-exceeding steps are not both positive,
   and the exceedance-start marker is set exactly when the count of
   consecutive exceeding steps is positive *)
C31_CountersAndMarkerAgree ==
    /\ ~(fsm.consec_hit > 0 /\ fsm.consec_ok > 0)
    /\ fsm.consec_hit >= 0 /\ fsm.consec_ok >= 0
    /\ (fsm.active_since # None) <=> (fsm.consec_hit > 0)

(* an exceeding step has just left COOLDOWN: both counts are 0 and the
   marker is cleared, though the window exceeded *)
C31_Witness ==
    /\ last.path = "stepped" /\ last.flag
    /\ last.via = <<"NORMAL">>
    /\ fsm.state = "NORMAL"
    /\ fsm.consec_hit = 0 /\ fsm.consec_ok = 0
    /\ fsm.active_since = None

(* C32: a step that follows the step of an ALERT starts in COOLDOWN and
   returns no ALERT; when an ALERT fires, as many steps have left COOLDOWN
   as ALERTs fired before it, the last of them not before the last ALERT;
   the step that leaves COOLDOWN returns nothing and leaves both counts 0
   and the exceedance marker cleared, whether or not its window exceeded;
   and the ALERT comes on the last of at least max(1, consecutiveRequired)
   exceeding steps taken back to back after that step, the first of them
   at least triggerHold before it *)
C32_NextAlertStartsAfterCooldown ==
    [][PollStepped =>
        /\ fsm.state = "COOLDOWN" => last'.ev # "ALERT"
        /\ last'.ev = "ALERT" =>
              /\ fsm'.state = "COOLDOWN"
              /\ Len(hist.exits) = Len(alerts)
              /\ alerts # <<>> =>
                    hist.exits[Len(hist.exits)] >= alerts[Len(alerts)]
              /\ hist'.hits >= 1
              /\ hist'.hits >= cfg.consecutive_required
              /\ hist'.first # None
              /\ now - hist'.first >= cfg.trigger_hold_ms
        /\ last'.via = <<"NORMAL">> =>
              /\ last'.ev = "NONE"
              /\ fsm'.consec_hit = 0 /\ fsm'.consec_ok = 0
              /\ fsm'.active_since = None
              /\ hist'.hits = 0]_vars

(* count 2: a second ALERT, on the second exceeding step after the step
   that left COOLDOWN, all steps since before the first ALERT exceeding *)
C32_Witness ==
    /\ cfg.consecutive_required = 2
    /\ Len(alerts) = 2 /\ Len(hist.exits) = 1
    /\ last.path = "stepped" /\ last.ev = "ALERT"
    /\ hist.hits = 2
    /\ runLen >= 5

----------------------------------------------------------------------------
(* Properties under persistent exceedance *)

(* polls that are enough for the cooldown, the gap, the hold and the count
   to pass, one after the other, at a unit of time or more per poll *)
RoundsToAlert ==
    cfg.cooldown_ms + cfg.retrigger_gap_ms + cfg.trigger_hold_ms
      + cfg.consecutive_required + 1

(* C33: with the anchor advancing and the clock moving on before every poll,
   the reads succeeding and every window exceeding, an ALERT is returned,
   and after every ALERT another one: whatever the number of ALERTs so far,
   one more comes as long as polls enough for it are still to be made *)
C33_PersistentExceedanceKeepsAlerting ==
    \A n \in 0..MaxRounds :
        (Len(alerts) = n /\ latest + RoundsToAlert <= MaxRounds)
           ~> (Len(alerts) > n)

(* count 3, hold 2: two ALERTs so far, every poll made having stepped an
   exceeding window *)
C33_Witness ==
    /\ cfg.consecutive_required = 3 /\ cfg.trigger_hold_ms = 2
    /\ Len(alerts) = 2
    /\ last.path = "stepped" /\ last.ev = "ALERT"
    /\ runLen = latest /\ last_anchor = latest

----------------------------------------------------------------------------
(* Properties of shutdown() *)

(* C34: shutdown() sets the flag and touches nothing else, so a poll that is
   at its notification send then stays there, its anchor and step kept, and
   can still come back from the send and return; a poll started after
   shutdown() returns at once, before the anchor read, leaving anchor and
   machine as they were and sending nothing; and the flag is never unset *)
C34_StoppedWorkerPollsAreNoOps ==
    /\ [][stopped' # stopped =>
            /\ stopped'
            /\ UNCHANGED <<last_anchor, fsm, last, alerts>>]_vars
    /\ [][(stopped /\ PollTaken /\ last.sent # "pending") =>
            /\ last'.path = "stopped"
            /\ last'.ev = "NONE" /\ last'.sent = "none"
            /\ UNCHANGED <<last_anchor, fsm, alerts>>]_vars
    /\ [][(last.sent = "pending" /\ last' # last) =>
            /\ last' \in {[last EXCEPT !.sent = r] :
                             r \in {"ok", "failed", "cancelled"}}
            /\ last'.sent = "cancelled" => stopped
            /\ UNCHANGED <<last_anchor, fsm, alerts>>]_vars
    /\ [](last.sent = "pending" =>
            /\ last.path = "stepped" /\ last.ev # "NONE"
            /\ ENABLED PollEnd)

(* after an ALERT the worker was shut down, and a poll made with a newer row
   in the store returned at the flag: the anchor is still the old one *)
C34_Witness ==
    /\ stopped
    /\ last.path = "stopped"
    /\ alerts # <<>> /\ fsm.state = "COOLDOWN"
    /\ last_anchor # None /\ latest > last_anchor

====
